---- MODULE Spec2Model ----
(***************************************************************************)
(* A model of GiNaC's dense symbolic matrix class (matrix.cpp): the matrix *)
(* core, the elimination schemes, the determinant engine and the derived   *)
(* operations solve, inverse, rank, pow and charpoly.                      *)
(*                                                                         *)
(* Expressions.  An entry of a matrix is an expression <<n, d, u>>: the    *)
(* rational number n/d in lowest terms (d > 0), and a form flag u.  u = 0  *)
(* is the numeric object n/d itself; u = 1 is a non-numeric expression     *)
(* that has not been expanded or normalised and whose canonical form is    *)
(* the number n/d, such as (x+1)^2 - x^2 - 2*x - 1 + n/d.  Such an entry   *)
(* is not is_zero() and not info(numeric) until expand() or normal() is    *)
(* applied to it.  <<0, 0, 1>> stands for the result of a division by zero.*)
(*                                                                         *)
(* Matrices are records [row, col, m] with m a function on 0..row*col-1,   *)
(* row-major, so that the index arithmetic of the source carries over.     *)
(***************************************************************************)
EXTENDS Integers, Sequences, FiniteSets, TLC

VARIABLES A, B, op, arg, res

vars == <<A, B, op, arg, res>>

(***************************************************************************)
(* Bounds of the model.                                                    *)
(***************************************************************************)
MaxCells == 9
MaxVal == 1
MaxExp == 5

(***************************************************************************)
(* The expression contract (numeric, ex): exact rational arithmetic with   *)
(* automatic evaluation.                                                   *)
(***************************************************************************)
Abs(x) == IF x < 0 THEN -x ELSE x

Max2(x, y) == IF x < y THEN y ELSE x

RECURSIVE GCD(_, _)
GCD(x, y) == IF y = 0 THEN x ELSE GCD(y, x % y)

Pole == <<0, 0, 1>>

Mk(n, d, u) ==
    IF d = 0 THEN Pole
    ELSE IF d = 1 THEN <<n, 1, u>>
    ELSE LET g == GCD(Abs(n), Abs(d))
             s == IF d < 0 THEN -1 ELSE 1
         IN  <<(s * n) \div g, (s * d) \div g, u>>

Num(n) == <<n, 1, 0>>

_ex0 == Num(0)

_ex1 == Num(1)

is_zero(e) == e[1] = 0 /\ e[3] = 0 /\ e[2] # 0

is_numeric(e) == e[3] = 0

expand(e) == IF e[2] = 0 THEN Pole ELSE <<e[1], e[2], 0>>

normal(e) == IF e[2] = 0 THEN Pole ELSE <<e[1], e[2], 0>>

EAdd(a, b) ==
    IF is_zero(a) THEN b
    ELSE IF is_zero(b) THEN a
    ELSE Mk(a[1] * b[2] + b[1] * a[2], a[2] * b[2], Max2(a[3], b[3]))

ENeg(a) == IF a[2] = 0 THEN Pole ELSE <<-a[1], a[2], a[3]>>

ESub(a, b) == EAdd(a, ENeg(b))

EMul(a, b) ==
    IF is_zero(a) \/ is_zero(b) THEN _ex0
    ELSE Mk(a[1] * b[1], a[2] * b[2], Max2(a[3], b[3]))

EDiv(a, b) ==
    IF b[1] = 0 \/ b[2] = 0 THEN Pole
    ELSE IF is_zero(a) THEN _ex0
    ELSE Mk(a[1] * b[2], a[2] * b[1], Max2(a[3], b[3]))

(* sign * e for the int sign returned by an elimination *)
ESign(sign, e) == EMul(Num(sign), e)

(***************************************************************************)
(* Matrix core.                                                            *)
(***************************************************************************)
Cells(r, c) == 0 .. (r * c - 1)

(* 2^16: Half * Half is 2^32, which an unsigned holds as 0 *)
Half == 256 * 256

(* r*c in unsigned arithmetic, by 16-bit halves: the product of the high   *)
(* halves is a multiple of 2^32 and is lost                                *)
UnsignedProduct(r, c) ==
    LET rl == r % Half
        rh == r \div Half
        cl == c % Half
        ch == c \div Half
    IN  ((rl * cl) % Half)
          + Half * ((((rl * cl) \div Half) + rl * ch + rh * cl) % Half)

(* matrix::matrix(unsigned r, unsigned c): m(r*c, _ex0) *)
matrix(r, c) ==
    [row |-> r, col |-> c, m |-> [i \in 0 .. (UnsignedProduct(r, c) - 1) |-> _ex0]]

(* matrix::matrix(unsigned r, unsigned c, exvector && m2) *)
matrix_rep(r, c, m2) == [row |-> r, col |-> c, m |-> m2]

(* "r0 < m-1" on unsigned operands: m-1 wraps around for m = 0 *)
LtUnsignedPred(r0, m) == IF m = 0 THEN TRUE ELSE r0 < m - 1

(* swap of rows k and ro of a flat row-major sequence in columns c >= from *)
SwapRows(mm, n, k, ro, from) ==
    [i \in DOMAIN mm |->
        IF (i % n) < from THEN mm[i]
        ELSE IF i \div n = k THEN mm[ro * n + (i % n)]
        ELSE IF i \div n = ro THEN mm[k * n + (i % n)]
        ELSE mm[i]]

(***************************************************************************)
(* matrix::pivot, symbolic == true: the first row k >= ro whose entry in   *)
(* column co does not expand to zero.                                      *)
(***************************************************************************)
RECURSIVE PivotSearch(_, _, _)
PivotSearch(M, k, co) ==
    IF k < M.row /\ is_zero(expand(M.m[k * M.col + co]))
    THEN PivotSearch(M, k + 1, co)
    ELSE k

(* the row ro itself is taken, whatever its entry *)
pivotFirstRow(M, ro, co) == [indx |-> 0, M |-> M]

(* the scan does not stop at its first hit: the last row k >= ro whose     *)
(* entry does not expand to zero is taken                                  *)
pivotLastRow(M, ro, co) ==
    LET rows == {k \in ro .. M.row - 1 :
                    ~is_zero(expand(M.m[k * M.col + co]))}
    IN  IF rows = {} THEN [indx |-> -1, M |-> M]
        ELSE LET k == CHOOSE k \in rows : \A j \in rows : j <= k
             IN  IF k = ro THEN [indx |-> 0, M |-> M]
                 ELSE [indx |-> k,
                       M |-> [M EXCEPT !.m = SwapRows(M.m, M.col, k, ro, 0)]]

pivot(M, ro, co) ==
    LET k == PivotSearch(M, ro, co)
    IN  IF k = M.row THEN [indx |-> -1, M |-> M]
        ELSE IF k = ro THEN [indx |-> 0, M |-> M]
        ELSE [indx |-> k,
              M |-> [M EXCEPT !.m = SwapRows(M.m, M.col, k, ro, 0)]]

(* the rows after r0 are left as they are *)
ClearRemainingRowsKept(mm, n, r0) == mm

(* "clear remaining rows": rows r0+1 .. m-1 are set to zero *)
ClearRemainingRows(mm, n, r0) ==
    [i \in DOMAIN mm |-> IF i \div n >= r0 + 1 THEN _ex0 ELSE mm[i]]

(* "save space by deleting no longer needed elements" of row r0 *)
DeleteRowTail(mm, n, r0) ==
    [i \in DOMAIN mm |->
        IF i \div n = r0 /\ (i % n) >= r0 + 1 THEN _ex0 ELSE mm[i]]

(***************************************************************************)
(* matrix::gauss_elimination.  One pass of the r2 loop for the pivot at    *)
(* (r0, c0), then the loop over the pivot columns.                         *)
(***************************************************************************)
GaussRows(mm, n, r0, c0) ==
    [i \in DOMAIN mm |->
        LET r2 == i \div n
            c  == i % n
        IN  IF r2 < r0 + 1 THEN mm[i]
            ELSE IF c >= r0 /\ c <= c0 THEN _ex0
            ELSE IF c >= c0 + 1 /\ ~is_zero(mm[r2 * n + c0])
                 THEN LET piv == EDiv(mm[r2 * n + c0], mm[r0 * n + c0])
                          x   == ESub(mm[i], EMul(piv, mm[r0 * n + c]))
                      IN  IF ~is_numeric(x) THEN normal(x) ELSE x
            ELSE mm[i]]

RECURSIVE GaussLoop(_, _, _, _, _)
GaussLoop(M, r0, c0, sign, det) ==
    IF c0 < M.col /\ LtUnsignedPred(r0, M.row)
    THEN LET p == pivot(M, r0, c0)
         IN  IF p.indx = -1
             THEN IF det THEN [sign |-> 0, M |-> p.M]
                  ELSE GaussLoop(p.M, r0, c0 + 1, 0, det)
             ELSE LET s2 == IF p.indx > 0 THEN -sign ELSE sign
                      m2 == GaussRows(p.M.m, M.col, r0, c0)
                      m3 == IF det THEN DeleteRowTail(m2, M.col, r0) ELSE m2
                  IN  GaussLoop([M EXCEPT !.m = m3], r0 + 1, c0 + 1, s2, det)
    ELSE [sign |-> sign,
          M |-> [M EXCEPT !.m = ClearRemainingRows(M.m, M.col, r0)]]

gauss_elimination(M, det) == GaussLoop(M, 0, 0, 1, det)

(***************************************************************************)
(* matrix::division_free_elimination.                                      *)
(***************************************************************************)
DivFreeRows(mm, n, r0, c0) ==
    [i \in DOMAIN mm |->
        LET r2 == i \div n
            c  == i % n
        IN  IF r2 < r0 + 1 THEN mm[i]
            ELSE IF c >= r0 /\ c <= c0 THEN _ex0
            ELSE IF c >= c0 + 1
                 THEN normal(ESub(EMul(mm[r0 * n + c0], mm[i]),
                                  EMul(mm[r2 * n + c0], mm[r0 * n + c])))
            ELSE mm[i]]

RECURSIVE DivFreeLoop(_, _, _, _, _)
DivFreeLoop(M, r0, c0, sign, det) ==
    IF c0 < M.col /\ LtUnsignedPred(r0, M.row)
    THEN LET p == pivot(M, r0, c0)
         IN  IF p.indx = -1
             THEN IF det THEN [sign |-> 0, M |-> p.M]
                  ELSE DivFreeLoop(p.M, r0, c0 + 1, 0, det)
             ELSE LET s2 == IF p.indx > 0 THEN -sign ELSE sign
                      m2 == DivFreeRows(p.M.m, M.col, r0, c0)
                      m3 == IF det THEN DeleteRowTail(m2, M.col, r0) ELSE m2
                  IN  DivFreeLoop([M EXCEPT !.m = m3], r0 + 1, c0 + 1, s2, det)
    ELSE [sign |-> sign,
          M |-> [M EXCEPT !.m = ClearRemainingRows(M.m, M.col, r0)]]

division_free_elimination(M, det) == DivFreeLoop(M, 0, 0, 1, det)

(***************************************************************************)
(* matrix::fraction_free_elimination (Bareiss).  tn and td are the         *)
(* numerator and denominator matrices tmp_n and tmp_d.                     *)
(***************************************************************************)
(* divide(a, b, q, true) of the expression contract for a numeric divisor: *)
(* q = a / b and the call returns true                                     *)
divide(a, b) == IF is_zero(a) THEN _ex0 ELSE EDiv(a, b)

(* nd = it.normal().to_rational(srl).numer_denom() *)
numer(e) == Num(normal(e)[1])

denom(e) == Num(normal(e)[2])

RECURSIVE BareissSearch(_, _, _, _, _)
BareissSearch(tn, m, n, indx, c0) ==
    IF indx < m /\ is_zero(expand(tn[indx * n + c0]))
    THEN BareissSearch(tn, m, n, indx + 1, c0)
    ELSE indx

(* the numerators divided by the pivot of this step instead of the pivot   *)
(* of the step before                                                      *)
BareissRowsNThisPivot(tn, td, n, r0, c0, divisor_n) ==
    [i \in DOMAIN tn |->
        LET r2 == i \div n
            c  == i % n
        IN  IF r2 < r0 + 1 THEN tn[i]
            ELSE IF c >= r0 /\ c <= c0 THEN _ex0
            ELSE IF c >= c0 + 1
                 THEN LET dividend_n ==
                            expand(ESub(
                              EMul(EMul(tn[r0 * n + c0], tn[r2 * n + c]),
                                   EMul(td[r2 * n + c0], td[r0 * n + c])),
                              EMul(EMul(tn[r2 * n + c0], tn[r0 * n + c]),
                                   EMul(td[r0 * n + c0], td[r2 * n + c]))))
                      IN  divide(dividend_n, tn[r0 * n + c0])
            ELSE tn[i]]

BareissRowsN(tn, td, n, r0, c0, divisor_n) ==
    [i \in DOMAIN tn |->
        LET r2 == i \div n
            c  == i % n
        IN  IF r2 < r0 + 1 THEN tn[i]
            ELSE IF c >= r0 /\ c <= c0 THEN _ex0
            ELSE IF c >= c0 + 1
                 THEN LET dividend_n ==
                            expand(ESub(
                              EMul(EMul(tn[r0 * n + c0], tn[r2 * n + c]),
                                   EMul(td[r2 * n + c0], td[r0 * n + c])),
                              EMul(EMul(tn[r2 * n + c0], tn[r0 * n + c]),
                                   EMul(td[r0 * n + c0], td[r2 * n + c]))))
                      IN  divide(dividend_n, divisor_n)
            ELSE tn[i]]

BareissRowsD(tn, td, n, r0, c0, divisor_d) ==
    [i \in DOMAIN td |->
        LET r2 == i \div n
            c  == i % n
        IN  IF r2 >= r0 + 1 /\ c >= c0 + 1
            THEN LET dividend_d ==
                       expand(EMul(EMul(td[r2 * n + c0], td[r0 * n + c]),
                                   EMul(td[r0 * n + c0], td[r2 * n + c])))
                 IN  divide(dividend_d, divisor_d)
            ELSE td[i]]

(* det mode: row r0 of tmp_n is set to 0 and row r0 of tmp_d to 1 *)
BareissDeleteRow(t, n, r0, e) ==
    [i \in DOMAIN t |-> IF i \div n = r0 THEN e ELSE t[i]]

RECURSIVE BareissLoop(_, _, _, _, _, _, _, _, _, _)
BareissLoop(tn, td, m, n, r0, c0, sign, divisor_n, divisor_d, det) ==
    IF c0 < n /\ LtUnsignedPred(r0, m)
    THEN LET indx == BareissSearch(tn, m, n, r0, c0)
         IN  IF indx = m
             THEN IF det THEN [sign |-> 0, done |-> FALSE, tn |-> tn, td |-> td]
                  ELSE BareissLoop(tn, td, m, n, r0, c0 + 1, 0,
                                   divisor_n, divisor_d, det)
             ELSE LET s2  == IF indx > r0 THEN -sign ELSE sign
                      tn1 == IF indx > r0 THEN SwapRows(tn, n, indx, r0, c0)
                             ELSE tn
                      td1 == IF indx > r0 THEN SwapRows(td, n, indx, r0, c0)
                             ELSE td
                      tn2 == BareissRowsN(tn1, td1, n, r0, c0, divisor_n)
                      td2 == BareissRowsD(tn1, td1, n, r0, c0, divisor_d)
                      dn  == expand(tn2[r0 * n + c0])
                      dd  == expand(td2[r0 * n + c0])
                      tn3 == IF det THEN BareissDeleteRow(tn2, n, r0, _ex0)
                             ELSE tn2
                      td3 == IF det THEN BareissDeleteRow(td2, n, r0, _ex1)
                             ELSE td2
                  IN  BareissLoop(tn3, td3, m, n, r0 + 1, c0 + 1, s2,
                                  dn, dd, det)
    ELSE [sign |-> sign, done |-> TRUE,
          tn |-> ClearRemainingRows(tn, n, r0), td |-> td]

fraction_free_elimination(M, det) ==
    IF M.row = 1 THEN [sign |-> 1, M |-> M]
    ELSE LET tn0 == [i \in DOMAIN M.m |-> numer(M.m[i])]
             td0 == [i \in DOMAIN M.m |-> denom(M.m[i])]
             r   == BareissLoop(tn0, td0, M.row, M.col, 0, 0, 1,
                                _ex1, _ex1, det)
         IN  IF r.done
             THEN [sign |-> r.sign,
                   M |-> [M EXCEPT !.m =
                            [i \in DOMAIN M.m |-> EDiv(r.tn[i], r.td[i])]]]
             ELSE [sign |-> 0, M |-> M]

(***************************************************************************)
(* matrix::markowitz_elimination(n).  The state of the loop over k is the  *)
(* record [m, rowcnt, colcnt, colid].                                      *)
(***************************************************************************)
SwapAt(f, i, j) == [x \in DOMAIN f |-> IF x = i THEN f[j]
                                       ELSE IF x = j THEN f[i] ELSE f[x]]

SwapCols(mm, ncol, c1, c2) ==
    [i \in DOMAIN mm |->
        IF (i % ncol) = c1 THEN mm[(i \div ncol) * ncol + c2]
        ELSE IF (i % ncol) = c2 THEN mm[(i \div ncol) * ncol + c1]
        ELSE mm[i]]

(* the counting and normalising pass before the loop *)
MarkowitzInit(M) ==
    [m      |-> [i \in DOMAIN M.m |->
                    IF ~is_zero(M.m[i]) THEN normal(M.m[i]) ELSE M.m[i]],
     rowcnt |-> [r \in 0 .. M.row - 1 |->
                    Cardinality({c \in 0 .. M.col - 1 :
                                   ~is_zero(M.m[r * M.col + c])})],
     colcnt |-> [c \in 0 .. M.col - 1 |->
                    Cardinality({r \in 0 .. M.row - 1 :
                                   ~is_zero(M.m[r * M.col + c])})],
     colid  |-> [c \in 0 .. M.col - 1 |-> c]]

(* the pivot candidates of step k whose measure is below the sentinel *)
MarkowitzCandidates(S, row, col, n, k) ==
    {rc \in (k .. row - 1) \X (k .. n - 1) :
        /\ ~is_zero(S.m[rc[1] * col + rc[2]])
        /\ (S.rowcnt[rc[1]] - 1) * (S.colcnt[rc[2]] - 1) < row * col}

MarkowitzMeasure(S, rc) == (S.rowcnt[rc[1]] - 1) * (S.colcnt[rc[2]] - 1)

(* the first candidate, in the order of the two loops, of minimal measure *)
MarkowitzPivot(S, row, col, n, k) ==
    LET cand == MarkowitzCandidates(S, row, col, n, k)
        best == {rc \in cand :
                   \A o \in cand : MarkowitzMeasure(S, rc) <= MarkowitzMeasure(S, o)}
    IN  CHOOSE rc \in best :
            \A o \in best : rc[1] < o[1] \/ (rc[1] = o[1] /\ rc[2] <= o[2])

MarkowitzStep(S, row, col, k, pivot_r, pivot_c) ==
    LET m1   == IF pivot_c # k THEN SwapCols(S.m, col, pivot_c, k) ELSE S.m
        cid  == IF pivot_c # k THEN SwapAt(S.colid, pivot_c, k) ELSE S.colid
        cc1  == IF pivot_c # k THEN SwapAt(S.colcnt, pivot_c, k) ELSE S.colcnt
        m2   == IF pivot_r # k THEN SwapRows(m1, col, pivot_r, k, k) ELSE m1
        rc1  == IF pivot_r # k THEN SwapAt(S.rowcnt, pivot_r, k) ELSE S.rowcnt
        a    == m2[k * col + k]
        ab   == [r \in 0 .. row - 1 |->
                    IF r > k /\ ~is_zero(m2[r * col + k])
                    THEN EDiv(m2[r * col + k], a) ELSE _ex0]
        touched(r, c) == /\ r > k /\ c > k
                         /\ ~is_zero(m2[k * col + c]) /\ ~is_zero(ab[r])
        new(r, c) == normal(ESub(m2[r * col + c], EMul(ab[r], m2[k * col + c])))
        gain(r, c) == IF ~touched(r, c) THEN 0
                      ELSE IF is_zero(m2[r * col + c]) /\ ~is_zero(new(r, c)) THEN 1
                      ELSE IF ~is_zero(m2[r * col + c]) /\ is_zero(new(r, c)) THEN -1
                      ELSE 0
        RECURSIVE SumRow(_, _)
        SumRow(r, c) == IF c >= col THEN 0 ELSE gain(r, c) + SumRow(r, c + 1)
        RECURSIVE SumCol(_, _)
        SumCol(r, c) == IF r >= row THEN 0 ELSE gain(r, c) + SumCol(r + 1, c)
    IN  [m      |-> [i \in DOMAIN m2 |->
                        LET r == i \div col
                            c == i % col
                        IN  IF r > k /\ c = k THEN _ex0
                            ELSE IF touched(r, c) THEN new(r, c)
                            ELSE m2[i]],
         rowcnt |-> [r \in DOMAIN rc1 |->
                        IF r = k THEN 0
                        ELSE IF r > k
                             THEN rc1[r]
                                  - (IF ~is_zero(m2[r * col + k]) THEN 1 ELSE 0)
                                  + SumRow(r, k + 1)
                        ELSE rc1[r]],
         colcnt |-> [c \in DOMAIN cc1 |->
                        IF c = k THEN 0
                        ELSE IF c > k
                             THEN cc1[c]
                                  - (IF ~is_zero(m2[k * col + c]) THEN 1 ELSE 0)
                                  + SumCol(k + 1, c)
                        ELSE cc1[c]],
         colid  |-> cid]

RECURSIVE MarkowitzLoop(_, _, _, _, _)
MarkowitzLoop(S, row, col, n, k) ==
    IF k < col /\ LtUnsignedPred(k, row)
    THEN IF MarkowitzCandidates(S, row, col, n, k) = {} THEN S
         ELSE LET rc == MarkowitzPivot(S, row, col, n, k)
              IN  MarkowitzLoop(MarkowitzStep(S, row, col, k, rc[1], rc[2]),
                                row, col, n, k + 1)
    ELSE S

markowitz_elimination(M, n) ==
    LET S == MarkowitzLoop(MarkowitzInit(M), M.row, M.col, n, 0)
    IN  [colid |-> S.colid, M |-> [M EXCEPT !.m = S.m]]

(***************************************************************************)
(* matrix::determinant_minor (Laplace expansion with stored minors).  A    *)
(* key is the sequence of rows of a minor; a cache is a function from keys *)
(* to expressions, as the std::map of the source.                          *)
(***************************************************************************)
RemoveAt(key, r) == SubSeq(key, 1, r) \o SubSeq(key, r + 2, Len(key))

(* the key 0, 1, ..., k-1 *)
RECURSIVE FirstKey(_)
FirstKey(k) == IF k = 0 THEN <<>> ELSE Append(FirstKey(k - 1), k - 1)

(* Nkey[j] = Nkey[j-1] + 1 for the positions j >= fc *)
RECURSIVE ResetKey(_, _)
ResetKey(key, j) ==
    IF j < Len(key) THEN ResetKey([key EXCEPT ![j + 1] = key[j] + 1], j + 1)
    ELSE key

(* A std::map is the set of its <<key, value>> pairs.  M[Mkey] inserts a  *)
(* missing key with the zero ex.                                           *)
MapKeys(Mp) == {kv[1] : kv \in Mp}

MapGet(Mp, key) ==
    IF key \in MapKeys(Mp) THEN (CHOOSE kv \in Mp : kv[1] = key)[2] ELSE _ex0

MapTouch(Mp, key) ==
    IF key \in MapKeys(Mp) THEN Mp ELSE Mp \cup {<<key, _ex0>>}

MapPut(Mp, key, e) == {kv \in Mp : kv[1] # key} \cup {<<key, e>>}

(* the loop over r for one key: [det, M] *)
RECURSIVE MinorSum(_, _, _, _, _, _, _)
MinorSum(mm, n, c, Nkey, Mp, r, det) ==
    IF r < n - c
    THEN LET e == mm[Nkey[r + 1] * n + c]
         IN  IF is_zero(e) THEN MinorSum(mm, n, c, Nkey, Mp, r + 1, det)
             ELSE LET Mkey == RemoveAt(Nkey, r)
                      t    == EMul(e, MapGet(Mp, Mkey))
                      d2   == IF (r % 2) = 1 THEN ESub(det, t) ELSE EAdd(det, t)
                  IN  MinorSum(mm, n, c, Nkey, MapTouch(Mp, Mkey), r + 1, d2)
    ELSE [det |-> det, M |-> Mp]

(* "compute next minor key": the for loop that increments from the right *)
RECURSIVE KeyIncrement(_, _, _)
KeyIncrement(Nkey, fc, c) ==
    IF fc > 0
    THEN LET k2 == [Nkey EXCEPT ![fc] = @ + 1]
         IN  IF k2[fc] < fc + c THEN [key |-> k2, fc |-> fc]
             ELSE KeyIncrement(k2, fc - 1, c)
    ELSE [key |-> Nkey, fc |-> 0]

NextKey(Nkey, n, c) ==
    LET inc == KeyIncrement(Nkey, n - c, c)
    IN  IF inc.fc < n - c /\ inc.fc > 0
        THEN [key |-> ResetKey(inc.key, inc.fc), fc |-> inc.fc]
        ELSE inc

(* the same loop, storing every minor in N, also a zero one *)
RECURSIVE MinorColumnStoreAll(_, _, _, _, _, _)
MinorColumnStoreAll(mm, n, c, Nkey, Mp, Np) ==
    LET s   == MinorSum(mm, n, c, Nkey, Mp, 0, _ex0)
        det == expand(s.det)
        N2  == MapPut(Np, Nkey, det)
        nx  == NextKey(Nkey, n, c)
    IN  IF nx.fc # 0 THEN MinorColumnStoreAll(mm, n, c, nx.key, s.M, N2)
        ELSE [det |-> det, M |-> s.M, N |-> N2]

(* the do ... while (fc) loop over the keys of column c: [det, M, N] *)
RECURSIVE MinorColumn(_, _, _, _, _, _)
MinorColumn(mm, n, c, Nkey, Mp, Np) ==
    LET s   == MinorSum(mm, n, c, Nkey, Mp, 0, _ex0)
        det == expand(s.det)
        N2  == IF ~is_zero(det) THEN MapPut(Np, Nkey, det) ELSE Np
        nx  == NextKey(Nkey, n, c)
    IN  IF nx.fc # 0 THEN MinorColumn(mm, n, c, nx.key, s.M, N2)
        ELSE [det |-> det, M |-> s.M, N |-> N2]

EmptyMap == {}

RECURSIVE MinorLoop(_, _, _, _, _)
MinorLoop(mm, n, c, Mp, det) ==
    IF c >= 0
    THEN LET col == MinorColumn(mm, n, c, FirstKey(n - c),
                                Mp, EmptyMap)
         IN  IF col.N = EmptyMap THEN _ex0
             ELSE MinorLoop(mm, n, c - 1, col.N, col.det)
    ELSE det

determinant_minor(M) ==
    MinorLoop(M.m, M.col, M.col - 1, {<<<<>>, _ex1>>}, _ex0)

(***************************************************************************)
(* Results of the public operations: a value or the exception thrown.      *)
(***************************************************************************)
Ex(e) == [tag |-> "ex", v |-> e]

Mat(M) == [tag |-> "matrix", v |-> M]

Unsigned(k) == [tag |-> "unsigned", v |-> k]

Error(cls, what) == [tag |-> "error", cls |-> cls, what |-> what]

(* what a read outside the bounds of the backing vector can produce *)
Crash == [tag |-> "crash"]

OutOfBoundsRead == {Crash} \cup {Ex(Num(v)) : v \in -MaxVal .. MaxVal}

(***************************************************************************)
(* matrix::determinant.  Entries that are rational functions but not       *)
(* polynomials are outside this model, so normal_flag is false.            *)
(***************************************************************************)
(* permutation_sign of a sequence of distinct column numbers *)
permutation_sign(p) ==
    LET inv == Cardinality({ij \in (DOMAIN p) \X (DOMAIN p) :
                              ij[1] < ij[2] /\ p[ij[1]] > p[ij[2]]})
    IN  IF (inv % 2) = 0 THEN 1 ELSE -1

(* the columns in ascending order of (number of zeros, column) *)
PreSort(M) ==
    LET acc(c) == Cardinality({r \in 0 .. M.row - 1 : is_zero(M.m[r * M.col + c])})
        before(c1, c2) == acc(c1) < acc(c2) \/ (acc(c1) = acc(c2) /\ c1 < c2)
    IN  [k \in 0 .. M.col - 1 |->
            CHOOSE c \in 0 .. M.col - 1 :
                Cardinality({c1 \in 0 .. M.col - 1 : before(c1, c)}) = k]

RECURSIVE DiagProduct(_, _, _)
DiagProduct(M, d, det) ==
    IF d < M.row THEN DiagProduct(M, d + 1, EMul(det, M.m[d * M.col + d]))
    ELSE det

(* "factor out accumulated bogus slag": the loops over d and j *)
RECURSIVE FactorOutSlag(_, _, _, _)
FactorOutSlag(M, d, j, det) ==
    IF d < M.row - 2
    THEN IF j < M.row - d - 2
         THEN FactorOutSlag(M, d, j + 1, normal(EDiv(det, M.m[d * M.col + d])))
         ELSE FactorOutSlag(M, d + 1, 0, det)
    ELSE det

(* the sparseness test decides last, also for a numeric matrix *)
DeterminantAlgoSparseLast(M, algo) ==
    LET numeric_flag == \A i \in DOMAIN M.m : is_numeric(M.m[i])
        sparse_count == Cardinality({i \in DOMAIN M.m : ~is_zero(M.m[i])})
    IN  IF algo = "automatic"
        THEN IF M.row > 3 /\ 5 * sparse_count <= M.row * M.col THEN "bareiss"
             ELSE IF numeric_flag THEN "gauss"
             ELSE "laplace"
        ELSE algo

DeterminantAlgo(M, algo) ==
    LET numeric_flag == \A i \in DOMAIN M.m : is_numeric(M.m[i])
        sparse_count == Cardinality({i \in DOMAIN M.m : ~is_zero(M.m[i])})
    IN  IF algo = "automatic"
        THEN IF numeric_flag THEN "gauss"
             ELSE IF M.row > 3 /\ 5 * sparse_count <= M.row * M.col THEN "bareiss"
             ELSE "laplace"
        ELSE algo

determinant(M, algo) ==
    IF M.row # M.col
    THEN {Error("logic_error", "matrix::determinant(): matrix not square")}
    ELSE IF M.row = 1 THEN {Ex(expand(M.m[0]))}
    ELSE LET alg == DeterminantAlgo(M, algo)
         IN  CASE alg = "gauss" ->
                    LET t == gauss_elimination(M, TRUE)
                    IN  {Ex(expand(normal(ESign(t.sign, DiagProduct(t.M, 0, _ex1)))))}
               [] alg = "bareiss" ->
                    IF M.row = 0 THEN OutOfBoundsRead
                    ELSE LET t == fraction_free_elimination(M, TRUE)
                         IN  {Ex(expand(ESign(t.sign, t.M.m[M.row * M.col - 1])))}
               [] alg = "divfree" ->
                    LET t == division_free_elimination(M, TRUE)
                    IN  IF t.sign = 0 THEN {Ex(_ex0)}
                        ELSE IF M.row = 0 THEN OutOfBoundsRead
                        ELSE {Ex(ESign(t.sign,
                                FactorOutSlag(t.M, 0, 0, t.M.m[M.row * M.col - 1])))}
               [] OTHER ->
                    LET pre_sort == PreSort(M)
                        sign     == permutation_sign(pre_sort)
                        result   == [i \in DOMAIN M.m |->
                                       M.m[(i \div M.col) * M.col + pre_sort[i % M.col]]]
                        sorted   == matrix_rep(M.row, M.col, result)
                    IN  IF M.row = 0
                        THEN {Ex(_ex0), Error("bad_alloc", "std::bad_alloc")}
                        ELSE {Ex(ESign(sign, determinant_minor(sorted)))}

(***************************************************************************)
(* Inputs.  Numeric entries are the integers -MaxVal .. MaxVal; matrices   *)
(* of at most four cells also draw unexpanded entries whose canonical form *)
(* is 0 or 1.  Matrices of more than four cells draw their entries from    *)
(* -1, 0, 1 and those of more than nine cells from 0, 1.                   *)
(***************************************************************************)
Numerics == {Num(v) : v \in -MaxVal .. MaxVal}

Unexpanded == {<<0, 1, 1>>, <<1, 1, 1>>}

Signs == {Num(-1), Num(0), Num(1)}

Bits == {Num(0), Num(1)}

EntriesFor(r, c) ==
    IF r * c <= 4 THEN Numerics \cup Unexpanded
    ELSE IF r * c <= 9 THEN Signs
    ELSE Bits

MatricesOf(r, c, S) == {matrix_rep(r, c, mm) : mm \in [Cells(r, c) -> S]}

Matrices(r, c) == MatricesOf(r, c, EntriesFor(r, c))

(* the same, with entries 0, 1 in every matrix of more than four cells *)
BitMatrices(r, c) ==
    MatricesOf(r, c, IF r * c <= 4 THEN EntriesFor(r, c) ELSE Bits)

NoMatrix == matrix_rep(0, 0, <<>>)

NoResult == [tag |-> "none"]

DeterminantAlgos == {"automatic", "gauss", "bareiss", "divfree", "laplace"}

(***************************************************************************)
(* Specification SpecDet: determinant(algo) of a square matrix.            *)
(***************************************************************************)
InitDet ==
    /\ \E n \in 0 .. MaxCells : n * n <= MaxCells /\ A \in Matrices(n, n)
    /\ B = NoMatrix
    /\ op = "none"
    /\ arg = "none"
    /\ res = NoResult

Determinant(algo) ==
    /\ op = "none"
    /\ \E r \in determinant(A, algo) : res' = r
    /\ op' = "determinant"
    /\ arg' = algo
    /\ UNCHANGED <<A, B>>

NextDet == \E algo \in DeterminantAlgos : Determinant(algo)

SpecDet == InitDet /\ [][NextDet]_vars

(* the determinant of the canonical forms, by expansion along column c *)
RECURSIVE LeibnizDet(_, _, _)
LeibnizDet(M, rows, c) ==
    IF c = M.col THEN _ex1
    ELSE LET RECURSIVE Sum(_)
             Sum(k) ==
                 IF k > Len(rows) THEN _ex0
                 ELSE LET t == EMul(normal(M.m[rows[k] * M.col + c]),
                                    LeibnizDet(M, RemoveAt(rows, k - 1), c + 1))
                      IN  EAdd(IF (k % 2) = 1 THEN t ELSE ENeg(t), Sum(k + 1))
         IN  Sum(1)

MathDet(M) == LeibnizDet(M, FirstKey(M.row), 0)

(* C1: for every square matrix A, determinant(A, algo) returns for the     *)
(* Gauss, Bareiss, DivisionFree and Laplace tags (and the automatic        *)
(* choice) an expression whose normal form is the mathematical determinant *)
(* of A, so that the algorithms agree; a singular A gives zero.            *)
DetAgree ==
    op = "determinant" => (res.tag = "ex" /\ normal(res.v) = MathDet(A))

(***************************************************************************)
(* matrix::echelon_form(algo, n): the heuristics for solve_algo::automatic *)
(* and the dispatch.  The result is [ok, colid, M]; ok = FALSE stands for  *)
(* the invalid_argument thrown for an unknown tag.                         *)
(***************************************************************************)
SolveAlgos == {"automatic", "gauss", "divfree", "bareiss", "markowitz"}

(* division-free elimination for fewer than 12 cells only *)
EchelonAlgoFewerCells(M, algo) ==
    LET numeric_flag == \A i \in DOMAIN M.m : is_numeric(M.m[i])
        density == Cardinality({i \in DOMAIN M.m : ~is_zero(M.m[i])})
        ncells == M.col * M.row
    IN  IF algo = "automatic"
        THEN IF numeric_flag
             THEN IF ncells > 200 /\ density < ncells \div 2 THEN "markowitz"
                  ELSE "gauss"
             ELSE IF ncells < 120 /\ density * 5 > ncells * 3
                  THEN IF ncells < 12 THEN "divfree" ELSE "bareiss"
                  ELSE "markowitz"
        ELSE algo

EchelonAlgo(M, algo) ==
    LET numeric_flag == \A i \in DOMAIN M.m : is_numeric(M.m[i])
        density == Cardinality({i \in DOMAIN M.m : ~is_zero(M.m[i])})
        ncells == M.col * M.row
    IN  IF algo = "automatic"
        THEN IF numeric_flag
             THEN IF ncells > 200 /\ density < ncells \div 2 THEN "markowitz"
                  ELSE "gauss"
             ELSE IF ncells < 120 /\ density * 5 > ncells * 3
                  THEN IF ncells <= 12 THEN "divfree" ELSE "bareiss"
                  ELSE "markowitz"
        ELSE algo

echelon_form(M, algo, n) ==
    LET alg == EchelonAlgo(M, algo)
        colid == [c \in 0 .. M.col - 1 |-> c]
    IN  CASE alg = "gauss" ->
               [ok |-> TRUE, colid |-> colid, M |-> gauss_elimination(M, FALSE).M]
          [] alg = "divfree" ->
               [ok |-> TRUE, colid |-> colid,
                M |-> division_free_elimination(M, FALSE).M]
          [] alg = "bareiss" ->
               [ok |-> TRUE, colid |-> colid,
                M |-> fraction_free_elimination(M, FALSE).M]
          [] alg = "markowitz" ->
               LET t == markowitz_elimination(M, n)
               IN  [ok |-> TRUE, colid |-> t.colid, M |-> t.M]
          [] OTHER -> [ok |-> FALSE, colid |-> colid, M |-> M]

EchelonError ==
    Error("invalid_argument",
          "matrix::echelon_form(): 'algo' is not one of the solve_algo enum")

(***************************************************************************)
(* matrix::rank(solve_algo).                                               *)
(***************************************************************************)
(* the scan "while (r--)" from the last element backward *)
RECURSIVE LastNonZero(_, _)
LastNonZero(mm, r) ==
    IF r = 0 THEN -1
    ELSE IF ~is_zero(mm[r - 1]) THEN r - 1
    ELSE LastNonZero(mm, r - 1)

rank(M, solve_algo) ==
    LET t == echelon_form(M, solve_algo, M.col)
        r == LastNonZero(t.M.m, M.row * M.col)
    IN  IF ~t.ok THEN EchelonError
        ELSE IF r >= 0 THEN Unsigned(1 + r \div M.col)
        ELSE Unsigned(0)

(***************************************************************************)
(* Specification SpecRank: rank(algo) of a matrix of any shape.            *)
(***************************************************************************)
InitRank ==
    /\ \E r \in 0 .. MaxCells : \E c \in 0 .. MaxCells :
          /\ r * c <= MaxCells
          /\ A \in IF r = c THEN Matrices(r, c) ELSE BitMatrices(r, c)
    /\ B = NoMatrix
    /\ op = "none"
    /\ arg = "none"
    /\ res = NoResult

Rank(algo) ==
    /\ op = "none"
    /\ res' = rank(A, algo)
    /\ op' = "rank"
    /\ arg' = algo
    /\ UNCHANGED <<A, B>>

NextRank == \E algo \in SolveAlgos : Rank(algo)

SpecRank == InitRank /\ [][NextRank]_vars

(* the rank of the canonical forms: the largest k for which some k x k    *)
(* minor does not vanish                                                   *)
RECURSIVE KeysOf(_, _, _)
KeysOf(k, lo, hi) ==
    IF k = 0 THEN {<<>>}
    ELSE UNION {{<<x>> \o t : t \in KeysOf(k - 1, x + 1, hi)} : x \in lo .. hi}

RECURSIVE MinorDet(_, _, _)
MinorDet(M, rows, cols) ==
    IF Len(cols) = 0 THEN _ex1
    ELSE LET RECURSIVE Sum(_)
             Sum(k) ==
                 IF k > Len(rows) THEN _ex0
                 ELSE LET t == EMul(normal(M.m[rows[k] * M.col + cols[1]]),
                                    MinorDet(M, RemoveAt(rows, k - 1), Tail(cols)))
                      IN  EAdd(IF (k % 2) = 1 THEN t ELSE ENeg(t), Sum(k + 1))
         IN  Sum(1)

HasMinor(M, k) ==
    \E rows \in KeysOf(k, 0, M.row - 1) : \E cols \in KeysOf(k, 0, M.col - 1) :
        ~is_zero(MinorDet(M, rows, cols))

MathRank(M) ==
    LET ks == {k \in 0 .. Max2(M.row, M.col) : k <= M.row /\ k <= M.col /\ HasMinor(M, k)}
    IN  CHOOSE k \in ks : \A j \in ks : j <= k

(* the rank returned is the largest order of a non-vanishing minor *)
RankAgree == op = "rank" => res = Unsigned(MathRank(A))

AllNumeric(M) == \A i \in DOMAIN M.m : is_numeric(M.m[i])

(* C6: for every matrix A, rank(A, algo) is the same number for Gauss,     *)
(* Bareiss, DivisionFree, Markowitz and Automatic, also when A has entries *)
(* that are zero only after expansion.                                     *)
RankSame == op = "rank" => \A algo \in SolveAlgos : rank(A, algo) = res

(* the same for the matrices whose entries are all numeric, against the    *)
(* largest order of a non-vanishing minor                                  *)
RankAgreeNumeric == (op = "rank" /\ AllNumeric(A)) => res = Unsigned(MathRank(A))

(***************************************************************************)
(* matrix::mul, matrix::transpose, matrix::trace.                          *)
(***************************************************************************)
(* only the last product of the row is kept *)
MulCellLastOnly(M, other, r1, r2, c, acc) ==
    IF M.col = 0 THEN acc
    ELSE EMul(M.m[r1 * M.col + (M.col - 1)],
              other.m[(M.col - 1) * other.col + r2])

(* prod[r1*other.col+r2] accumulated over c, skipping exact zeros of *this *)
RECURSIVE MulCell(_, _, _, _, _, _)
MulCell(M, other, r1, r2, c, acc) ==
    IF c < M.col
    THEN IF is_zero(M.m[r1 * M.col + c])
         THEN MulCell(M, other, r1, r2, c + 1, acc)
         ELSE MulCell(M, other, r1, r2, c + 1,
                      EAdd(acc, EMul(M.m[r1 * M.col + c],
                                     other.m[c * other.col + r2])))
    ELSE acc

mul(M, other) ==
    IF M.col # other.row
    THEN Error("logic_error", "matrix::mul(): incompatible matrices")
    ELSE Mat(matrix_rep(M.row, other.col,
                [i \in Cells(M.row, other.col) |->
                    MulCell(M, other, i \div other.col, i % other.col, 0, _ex0)]))

(* the dimensions are exchanged and the entries stay where they are *)
transposeReshaped(M) == matrix_rep(M.col, M.row, M.m)

transpose(M) ==
    matrix_rep(M.col, M.row,
        [i \in Cells(M.col, M.row) |->
            M.m[(i % M.row) * M.col + (i \div M.row)]])

RECURSIVE TraceSum(_, _, _)
TraceSum(M, r, tr) ==
    IF r < M.col THEN TraceSum(M, r + 1, EAdd(tr, M.m[r * M.col + r])) ELSE tr

trace(M) ==
    IF M.row # M.col
    THEN Error("logic_error", "matrix::trace(): matrix not square")
    ELSE Ex(expand(TraceSum(M, 0, _ex0)))

(***************************************************************************)
(* Specification SpecTranspose: transpose() and its repetition.            *)
(***************************************************************************)
InitTranspose ==
    /\ \E r \in 0 .. MaxCells : \E c \in 0 .. MaxCells :
          /\ r * c <= MaxCells
          /\ A \in BitMatrices(r, c)
    /\ B = NoMatrix
    /\ op = "none"
    /\ arg = "none"
    /\ res = NoResult

Transpose ==
    /\ op = "none"
    /\ res' = Mat(transpose(A))
    /\ op' = "transpose"
    /\ UNCHANGED <<A, B, arg>>

TransposeAgain ==
    /\ op = "transpose"
    /\ res' = Mat(transpose(res.v))
    /\ op' = "transpose.transpose"
    /\ UNCHANGED <<A, B, arg>>

NextTranspose == Transpose \/ TransposeAgain

SpecTranspose == InitTranspose /\ [][NextTranspose]_vars

(***************************************************************************)
(* matrix::solve(vars, rhs, algo).  The entries of vars are symbols,       *)
(* written as their numbers 1, 2, ... (0 stands for an entry that is not a *)
(* symbol).  An entry of the solution is a linear form in these symbols: a *)
(* function f on 0 .. K with f[0] the constant term and f[j] the           *)
(* coefficient of symbol j, each a normalised expression.                  *)
(***************************************************************************)
LConst(e, K) == [j \in 0 .. K |-> IF j = 0 THEN e ELSE _ex0]

LSym(s, K) == [j \in 0 .. K |-> IF j = s THEN _ex1 ELSE _ex0]

LSub(f, g) == [j \in DOMAIN f |-> ESub(f[j], g[j])]

LScale(e, f) == [j \in DOMAIN f |-> EMul(e, f[j])]

LDiv(f, e) == [j \in DOMAIN f |-> EDiv(f[j], e)]

LNormal(f) == [j \in DOMAIN f |-> normal(f[j])]

(* every row counts as a row of zeros *)
FirstNonZeroNever(aug, r, n, p, fnz) == n + 1

(* first non-zero in row r, counted from 1; n+1 if there is none *)
RECURSIVE FirstNonZero(_, _, _, _, _)
FirstNonZero(aug, r, n, p, fnz) ==
    IF fnz <= n /\ is_zero(normal(aug.m[r * (n + p) + (fnz - 1)]))
    THEN FirstNonZero(aug, r, n, p, fnz + 1)
    ELSE fnz

(* no free parameter is assigned *)
AssignFreeSkipped(sol, xvars, colid, p, co, c, to, K) == sol

(* sol(colid[c],co) = vars.m[colid[c]*p+co] for c = from .. to-1 *)
RECURSIVE AssignFree(_, _, _, _, _, _, _, _)
AssignFree(sol, xvars, colid, p, co, c, to, K) ==
    IF c < to
    THEN AssignFree([sol EXCEPT ![colid[c] * p + co] =
                        LSym(xvars.m[colid[c] * p + co], K)],
                    xvars, colid, p, co, c + 1, to, K)
    ELSE sol

(* nothing is substituted back *)
ResidualKept(aug, sol, colid, r, n, p, co, c, e) == e

(* e -= aug.m[r*(n+p)+c]*sol.m[colid[c]*p+co] for c = fnz .. n-1 *)
RECURSIVE Residual(_, _, _, _, _, _, _, _, _)
Residual(aug, sol, colid, r, n, p, co, c, e) ==
    IF c < n
    THEN Residual(aug, sol, colid, r, n, p, co, c + 1,
                  LSub(e, LScale(aug.m[r * (n + p) + c], sol[colid[c] * p + co])))
    ELSE e

(* the loop over the rows r = m-1 .. 0 for the solution column co *)
RECURSIVE SolveRows(_, _, _, _, _, _, _, _, _, _)
SolveRows(aug, xvars, colid, n, p, co, r, sol, last_assigned_sol, K) ==
    IF r >= 0
    THEN LET fnz == FirstNonZero(aug, r, n, p, 1)
         IN  IF fnz > n
             THEN IF ~is_zero(normal(aug.m[r * (n + p) + n + co]))
                  THEN [ok |-> FALSE, sol |-> sol]
                  ELSE SolveRows(aug, xvars, colid, n, p, co, r - 1, sol,
                                 last_assigned_sol, K)
             ELSE LET s1 == AssignFree(sol, xvars, colid, p, co, fnz,
                                       last_assigned_sol - 1, K)
                      e  == Residual(aug, s1, colid, r, n, p, co, fnz,
                                     LConst(aug.m[r * (n + p) + n + co], K))
                      s2 == [s1 EXCEPT ![colid[fnz - 1] * p + co] =
                               LNormal(LDiv(e, aug.m[r * (n + p) + fnz - 1]))]
                  IN  SolveRows(aug, xvars, colid, n, p, co, r - 1, s2, fnz, K)
    ELSE [ok |-> TRUE,
          sol |-> AssignFree(sol, xvars, colid, p, co, 0,
                             last_assigned_sol - 1, K)]

RECURSIVE SolveColumns(_, _, _, _, _, _, _, _, _)
SolveColumns(aug, xvars, colid, m, n, p, co, sol, K) ==
    IF co < p
    THEN LET t == SolveRows(aug, xvars, colid, n, p, co, m - 1, sol, n + 1, K)
         IN  IF ~t.ok THEN t
             ELSE SolveColumns(aug, xvars, colid, m, n, p, co + 1, t.sol, K)
    ELSE [ok |-> TRUE, sol |-> sol]

Solution(S) == [tag |-> "solution", v |-> S]

(* the assembled solution, or the failure of an inconsistent row *)
SolveAssembled(t, n, p) ==
    IF ~t.ok
    THEN Error("runtime_error", "matrix::solve(): inconsistent linear system")
    ELSE Solution([row |-> n, col |-> p, m |-> t.sol])

(* the solution read off the eliminated augmented matrix *)
SolveEliminated(ech, xvars, m, n, p) ==
    IF ~ech.ok THEN EchelonError
    ELSE SolveAssembled(SolveColumns(ech.M, xvars, ech.colid, m, n, p, 0,
                            [i \in Cells(n, p) |-> LConst(_ex0, n * p)], n * p),
                        n, p)

(* the augmented matrix of M with rhs attached to the right *)
AugmentedMatrix(M, rhs, m, n, p) ==
    matrix_rep(m, n + p,
        [i \in Cells(m, n + p) |->
            IF (i % (n + p)) < n
            THEN M.m[(i \div (n + p)) * n + (i % (n + p))]
            ELSE rhs.m[(i \div (n + p)) * p + (i % (n + p)) - n]])

(* the entries of vars are tested before the shapes *)
solveSymbolsFirst(M, xvars, rhs, algo) ==
    IF \E i \in DOMAIN xvars.m : xvars.m[i] = 0
    THEN Error("invalid_argument",
               "matrix::solve(): 1st argument must be matrix of symbols")
    ELSE IF rhs.row # M.row \/ xvars.row # M.col \/ xvars.col # rhs.col
    THEN Error("logic_error", "matrix::solve(): incompatible matrices")
    ELSE SolveEliminated(
             echelon_form(AugmentedMatrix(M, rhs, M.row, M.col, rhs.col), algo, M.col),
             xvars, M.row, M.col, rhs.col)

solve(M, xvars, rhs, algo) ==
    IF rhs.row # M.row \/ xvars.row # M.col \/ xvars.col # rhs.col
    THEN Error("logic_error", "matrix::solve(): incompatible matrices")
    ELSE IF \E i \in DOMAIN xvars.m : xvars.m[i] = 0
    THEN Error("invalid_argument",
               "matrix::solve(): 1st argument must be matrix of symbols")
    ELSE SolveEliminated(
             echelon_form(AugmentedMatrix(M, rhs, M.row, M.col, rhs.col), algo, M.col),
             xvars, M.row, M.col, rhs.col)

(* an n x p matrix of distinct symbols *)
SymbolMatrix(n, p) == matrix_rep(n, p, [i \in Cells(n, p) |-> i + 1])

(***************************************************************************)
(* matrix::inverse(algo).                                                  *)
(***************************************************************************)
IdentityMatrix(n) ==
    matrix_rep(n, n, [i \in Cells(n, n) |->
                        IF i \div n = (i % n) THEN _ex1 ELSE _ex0])

(* the catch clause: the inconsistent-system failure becomes the singular  *)
(* matrix failure, everything else is passed on                            *)
ConvertInconsistent(sol) ==
    IF sol.tag = "error" /\ sol.cls = "runtime_error"
       /\ sol.what = "matrix::solve(): inconsistent linear system"
    THEN Error("runtime_error", "matrix::inverse(): singular matrix")
    ELSE sol

(* the failure of solve is not converted *)
inverseUnconverted(M, algo) ==
    IF M.row # M.col
    THEN Error("logic_error", "matrix::inverse(): matrix not square")
    ELSE solve(M, SymbolMatrix(M.row, M.col), IdentityMatrix(M.row), algo)

inverse(M, algo) ==
    IF M.row # M.col
    THEN Error("logic_error", "matrix::inverse(): matrix not square")
    ELSE ConvertInconsistent(
             solve(M, SymbolMatrix(M.row, M.col), IdentityMatrix(M.row), algo))

(***************************************************************************)
(* Specification SpecSolve: solve(vars, rhs, algo) for an m x n matrix A,  *)
(* an m x p right-hand side B and an n x p matrix of distinct symbols.     *)
(* The right-hand side is numeric and has one column, or none for the      *)
(* matrices of at most four cells; systems with several right-hand-side    *)
(* columns are those of SpecInverse.                                       *)
(***************************************************************************)
(* coefficient matrices: the integers up to MaxVal and unexpanded entries  *)
(* in at most two cells, -1, 0, 1 and unexpanded entries in at most four,  *)
(* 0 and 1 above that                                                      *)
SolveMatrices(m, n) ==
    MatricesOf(m, n, IF m * n <= 2 THEN Numerics \cup Unexpanded
                     ELSE IF m * n <= 4 THEN Signs \cup Unexpanded
                     ELSE Bits)

(* right-hand sides: every one over -1, 0, 1 of at most two rows, every    *)
(* one over 0, 1 of three rows, the constant ones above that               *)
RightHandSides(m, p) ==
    IF m <= 2 THEN MatricesOf(m, p, Signs)
    ELSE IF m = 3 THEN MatricesOf(m, p, Bits)
    ELSE {matrix_rep(m, p, [i \in Cells(m, p) |-> v]) : v \in Signs}

(* 3 x 3 matrices of ones and of entries that are zero only after          *)
(* normalization, the first column being ones                              *)
HiddenZero == <<0, 1, 1>>

HiddenZeroMatrices ==
    {M \in MatricesOf(3, 3, {_ex1, HiddenZero}) :
        \A i \in {0, 3, 6} : M.m[i] = _ex1}

InitSolve ==
    /\ \/ \E m \in 0 .. MaxCells : \E n \in 0 .. MaxCells : \E p \in 0 .. 1 :
             /\ m * n <= MaxCells
             /\ (p = 0) => m * n <= 4
             /\ A \in SolveMatrices(m, n)
             /\ B \in RightHandSides(m, p)
       \/ /\ A \in HiddenZeroMatrices
          /\ B \in MatricesOf(3, 1, Signs)
    /\ op = "none"
    /\ arg = "none"
    /\ res = NoResult

Solve(algo) ==
    /\ op = "none"
    /\ res' = solve(A, SymbolMatrix(A.col, B.col), B, algo)
    /\ op' = "solve"
    /\ arg' = algo
    /\ UNCHANGED <<A, B>>

NextSolve == \E algo \in SolveAlgos : Solve(algo)

SpecSolve == InitSolve /\ [][NextSolve]_vars

(* the matrix A with column co of rhs attached *)
Augmented(M, rhs, co) ==
    matrix_rep(M.row, M.col + 1,
        [i \in Cells(M.row, M.col + 1) |->
            IF (i % (M.col + 1)) < M.col
            THEN M.m[(i \div (M.col + 1)) * M.col + (i % (M.col + 1))]
            ELSE rhs.m[(i \div (M.col + 1)) * rhs.col + co]])

(* A.X = rhs has a solution (Rouche-Capelli, column by column) *)
SolvableOfRank(M, rhs, rk) ==
    \A co \in 0 .. rhs.col - 1 : MathRank(Augmented(M, rhs, co)) = rk

Solvable(M, rhs) == SolvableOfRank(M, rhs, MathRank(M))

(* row i of M applied to column co of the solution X, as a linear form *)
RECURSIVE RowTimesSolution(_, _, _, _, _, _)
RowTimesSolution(M, X, i, co, j, acc) ==
    IF j < M.col
    THEN RowTimesSolution(M, X, i, co, j + 1,
            LSub(acc, LScale(ENeg(normal(M.m[i * M.col + j])), X.m[j * X.col + co])))
    ELSE LNormal(acc)

(* M.X = rhs identically in the symbols *)
SolvesIdentically(M, X, rhs) ==
    /\ X.row = M.col
    /\ X.col = rhs.col
    /\ \A i \in 0 .. M.row - 1 : \A co \in 0 .. rhs.col - 1 :
          RowTimesSolution(M, X, i, co, 0, LConst(_ex0, M.col * rhs.col))
              = LConst(normal(rhs.m[i * rhs.col + co]), M.col * rhs.col)

(* the variables of column co that are returned as their own symbol *)
OwnSymbol(X, co) ==
    {j \in 0 .. X.row - 1 :
        X.m[j * X.col + co] = LSym(j * X.col + co + 1, X.row * X.col)}

(* the symbols that occur in the entry f of the solution *)
SymbolsOf(f) == {s \in DOMAIN f : s > 0 /\ f[s] # _ex0}

(* every variable is its own symbol or a form in the own-symbol variables  *)
(* of its column, and the number of these is n - rank                      *)
FreeParameters(M, X, rk) ==
    \A co \in 0 .. X.col - 1 :
        /\ Cardinality(OwnSymbol(X, co)) = M.col - rk
        /\ \A j \in 0 .. X.row - 1 :
              SymbolsOf(X.m[j * X.col + co]) \subseteq
                  {k * X.col + co + 1 : k \in OwnSymbol(X, co)}

InconsistentSystemError ==
    Error("runtime_error", "matrix::solve(): inconsistent linear system")

SolveInconsistent ==
    op = "solve" =>
        LET rk == MathRank(A)
        IN  /\ (res = InconsistentSystemError) <=> ~SolvableOfRank(A, B, rk)
            /\ (A.row = A.col /\ AllNumeric(A) /\ rk = A.col) =>
                  /\ res.tag = "solution"
                  /\ SolvesIdentically(A, res.v, B)
                  /\ \A i \in DOMAIN res.v.m : SymbolsOf(res.v.m[i]) = {}

(***************************************************************************)
(* Specification SpecInverse: inverse(algo) of a matrix, for the           *)
(* elimination algorithms and for a tag that is none of them.              *)
(***************************************************************************)
InverseAlgos == SolveAlgos \cup {"unknown"}

InitInverse ==
    /\ \E r \in 0 .. MaxCells : \E c \in 0 .. MaxCells :
          /\ r * c <= MaxCells
          /\ (r # c) => r * c <= 4
          /\ A \in BitMatrices(r, c)
    /\ B = NoMatrix
    /\ op = "none"
    /\ arg = "none"
    /\ res = NoResult

Inverse(algo) ==
    /\ op = "none"
    /\ res' = inverse(A, algo)
    /\ op' = "inverse"
    /\ arg' = algo
    /\ UNCHANGED <<A, B>>

NextInverse == \E algo \in InverseAlgos : Inverse(algo)

SpecInverse == InitInverse /\ [][NextInverse]_vars

(* the entry f of a solution as an expression: its constant, or an         *)
(* expression that is not a number when a symbol occurs in it              *)
ToEx(f) == IF SymbolsOf(f) = {} THEN f[0] ELSE Mk(f[0][1], f[0][2], 1)

SolutionMatrix(X) ==
    matrix_rep(X.row, X.col, [i \in Cells(X.row, X.col) |-> ToEx(X.m[i])])

(* X and Y have the same dimensions and entries of the same canonical form *)
SameValue(X, Y) ==
    /\ X.row = Y.row
    /\ X.col = Y.col
    /\ \A i \in DOMAIN X.m : normal(X.m[i]) = normal(Y.m[i])

Invertible(M) == M.row = M.col /\ MathDet(M) # _ex0

Singular(M) == M.row = M.col /\ MathDet(M) = _ex0

SingularMatrixError ==
    Error("runtime_error", "matrix::inverse(): singular matrix")

InitMulDet ==
    /\ \E n \in 0 .. MaxCells :
          /\ n * n <= MaxCells
          /\ A \in BitMatrices(n, n)
          /\ IF n * n <= 4
             THEN B \in MatricesOf(n, n, Signs)
             ELSE B \in {A, transpose(A)}
    /\ op = "none"
    /\ arg = "none"
    /\ res = NoResult

MulDeterminant(algo) ==
    /\ op = "none"
    /\ \E r \in determinant(mul(A, B).v, algo) : res' = r
    /\ op' = "mul.determinant"
    /\ arg' = algo
    /\ UNCHANGED <<A, B>>

NextMulDet == \E algo \in DeterminantAlgos : MulDeterminant(algo)

SpecMulDet == InitMulDet /\ [][NextMulDet]_vars

(* the determinant of the product is the product of the determinants, for  *)
(* every outcome of the determinants of the factors                        *)
Multiplicative ==
    /\ res.tag = "ex"
    /\ \A da \in determinant(A, arg) : \A db \in determinant(B, arg) :
          /\ da.tag = "ex"
          /\ db.tag = "ex"
          /\ normal(res.v) = normal(EMul(da.v, db.v))

(***************************************************************************)
(* matrix::pow(expn).                                                      *)
(***************************************************************************)
(* the odd digits of b are not multiplied in *)
RECURSIVE PowLoopEvenOnly(_, _, _)
PowLoopEvenOnly(b, M, C) ==
    IF b # 1
    THEN PowLoopEvenOnly(b \div 2, mul(M, M).v, C)
    ELSE mul(M, C)

(* the loop while (b != 1) and the final A.mul(C) *)
RECURSIVE PowLoop(_, _, _)
PowLoop(b, M, C) ==
    IF b # 1
    THEN IF (b % 2) = 1
         THEN PowLoop((b - 1) \div 2, mul(M, M).v, mul(C, M).v)
         ELSE PowLoop(b \div 2, mul(M, M).v, C)
    ELSE mul(M, C)

(* the negative exponent: the failure of inverse, or the power of it *)
PowOfInverse(inv, b, n) ==
    IF inv.tag # "solution" THEN inv
    ELSE PowLoop(b, SolutionMatrix(inv.v), IdentityMatrix(n))

pow(M, expn) ==
    IF M.col # M.row
    THEN Error("logic_error", "matrix::pow(): matrix not square")
    ELSE IF is_numeric(expn) /\ expn[2] = 1
    THEN IF expn[1] < 0
         THEN PowOfInverse(inverse(M, "automatic"), -expn[1], M.row)
         ELSE IF expn[1] = 0 THEN Mat(IdentityMatrix(M.row))
         ELSE PowLoop(expn[1], M, IdentityMatrix(M.row))
    ELSE Error("runtime_error", "matrix::pow(): don't know how to handle exponent")

(***************************************************************************)
(* Specification SpecPow: pow(expn) for the integers up to MaxExp in       *)
(* absolute value, for the fraction 1/2 and for a symbol.                  *)
(***************************************************************************)
Exponents == {Num(k) : k \in -MaxExp .. MaxExp} \cup {Mk(1, 2, 0), Mk(0, 1, 1)}

InitPow ==
    /\ \E r \in 0 .. MaxCells : \E c \in 0 .. MaxCells :
          /\ r * c <= MaxCells
          /\ (r # c) => r * c <= 4
          /\ A \in BitMatrices(r, c)
    /\ B = NoMatrix
    /\ op = "none"
    /\ arg = "none"
    /\ res = NoResult

Pow(expn) ==
    /\ op = "none"
    /\ res' = pow(A, expn)
    /\ op' = "pow"
    /\ arg' = expn
    /\ UNCHANGED <<A, B>>

NextPow == \E expn \in Exponents : Pow(expn)

SpecPow == InitPow /\ [][NextPow]_vars

(* the n-fold product M.M. ... .M, n >= 1 *)
RECURSIVE Product(_, _)
Product(M, n) == IF n = 1 THEN M ELSE mul(M, Product(M, n - 1)).v

IsInteger(e) == is_numeric(e) /\ e[2] = 1

(* C8: for a square A and an integer n, pow(0) is the identity matrix,     *)
(* pow(n) for n >= 1 has the entries of the n-fold product A.A. ... .A,    *)
(* and pow(n) for n < 0 those of the |n|-fold product of inverse(A) (the   *)
(* failure of inverse if it fails); a non-square A fails with "matrix not  *)
(* square" and an exponent that is not an integer with "don't know how to  *)
(* handle exponent".                                                       *)
PowAgree ==
    op = "pow" =>
        IF A.row # A.col
        THEN res = Error("logic_error", "matrix::pow(): matrix not square")
        ELSE IF ~IsInteger(arg)
        THEN res = Error("runtime_error",
                         "matrix::pow(): don't know how to handle exponent")
        ELSE IF arg[1] = 0 THEN res = Mat(IdentityMatrix(A.row))
        ELSE IF arg[1] >= 1
        THEN res.tag = "matrix" /\ SameValue(res.v, Product(A, arg[1]))
        ELSE LET inv == inverse(A, "automatic")
             IN  IF inv.tag = "solution"
                 THEN /\ res.tag = "matrix"
                      /\ SameValue(res.v, Product(SolutionMatrix(inv.v), -arg[1]))
                 ELSE res = inv

(***************************************************************************)
(* matrix::charpoly(lambda).  A polynomial in lambda is the function from  *)
(* the exponents 0 .. row to the coefficients.                             *)
(***************************************************************************)
Poly(f) == [tag |-> "poly", v |-> f]

(* row-1 in unsigned arithmetic; -1 stands for the wrapped value 2^32-1 *)
UnsignedPred(row) == IF row = 0 THEN -1 ELSE row - 1

(* poly - c*power(lambda, e); the product is 0 when c is *)
PolySubTerm(poly, c, e) ==
    IF is_zero(c) THEN poly ELSE [poly EXCEPT ![e] = ESub(@, c)]

PolyNeg(poly) == [k \in DOMAIN poly |-> ENeg(poly[k])]

(* c is not subtracted *)
SubDiagonalKept(M, c) == M

(* B.m[j*col+j] -= c for every j *)
SubDiagonal(M, c) ==
    [M EXCEPT !.m = [i \in DOMAIN M.m |->
        IF i \div M.col = (i % M.col) THEN ESub(M.m[i], c) ELSE M.m[i]]]

(* the loop of Leverrier's algorithm for i = 1 .. row-1 *)
RECURSIVE LeverrierLoop(_, _, _, _, _)
LeverrierLoop(M, i, BB, c, poly) ==
    IF i < M.row
    THEN LET B2 == mul(M, SubDiagonal(BB, c)).v
             c2 == EDiv(trace(B2).v, Num(i + 1))
         IN  LeverrierLoop(M, i + 1, B2, c2, PolySubTerm(poly, c2, M.row - i - 1))
    ELSE poly

(* (M - lambda*1)[i] multiplied into the polynomial acc *)
PolyTimesEntry(M, i, acc) ==
    [k \in DOMAIN acc |->
        IF i \div M.col = (i % M.col) /\ k > 0
        THEN ESub(EMul(M.m[i], acc[k]), acc[k - 1])
        ELSE EMul(M.m[i], acc[k])]

PolyAdd(f, g) == [k \in DOMAIN f |-> EAdd(f[k], g[k])]

(* determinant of M - lambda*1, expanded along the columns, collected in   *)
(* powers of lambda                                                        *)
RECURSIVE CharDeterminant(_, _, _, _)
CharDeterminant(M, rows, c, acc) ==
    IF c = M.col THEN acc
    ELSE LET RECURSIVE Sum(_)
             Sum(k) ==
                 IF k > Len(rows) THEN [j \in DOMAIN acc |-> _ex0]
                 ELSE LET t == CharDeterminant(M, RemoveAt(rows, k - 1), c + 1,
                                  PolyTimesEntry(M, rows[k] * M.col + c, acc))
                      IN  PolyAdd(IF (k % 2) = 1 THEN t ELSE PolyNeg(t), Sum(k + 1))
         IN  Sum(1)

PolyOne(n) == [k \in 0 .. n |-> IF k = 0 THEN _ex1 ELSE _ex0]

PolyExpand(f) == [k \in DOMAIN f |-> expand(f[k])]

charpoly(M) ==
    IF M.row # M.col
    THEN Error("logic_error", "matrix::charpoly(): matrix not square")
    ELSE IF \A i \in DOMAIN M.m : is_numeric(M.m[i])
    THEN LET c == trace(M).v
             poly == PolySubTerm([k \in 0 .. M.row |->
                                    IF k = M.row THEN _ex1 ELSE _ex0],
                                 c, UnsignedPred(M.row))
             p2 == LeverrierLoop(M, 1, M, c, poly)
         IN  Poly(IF (M.row % 2) = 1 THEN PolyNeg(p2) ELSE p2)
    ELSE Poly(PolyExpand(CharDeterminant(M, FirstKey(M.row), 0, PolyOne(M.row))))

(***************************************************************************)
(* Specification SpecCharpoly: charpoly(lambda) of a matrix.               *)
(***************************************************************************)
InitCharpoly ==
    /\ \E r \in 0 .. MaxCells : \E c \in 0 .. MaxCells :
          /\ r * c <= MaxCells
          /\ (r # c) => r * c <= 4
          /\ A \in Matrices(r, c)
    /\ B = NoMatrix
    /\ op = "none"
    /\ arg = "none"
    /\ res = NoResult

Charpoly ==
    /\ op = "none"
    /\ res' = charpoly(A)
    /\ op' = "charpoly"
    /\ UNCHANGED <<A, B, arg>>

NextCharpoly == Charpoly

SpecCharpoly == InitCharpoly /\ [][NextCharpoly]_vars

(* C9: for a square matrix of numeric entries, charpoly by Leverrier's     *)
(* recursion is the determinant of (A - lambda*1) collected in powers of   *)
(* lambda.                                                                 *)
CharpolyAgree ==
    (op = "charpoly" /\ A.row = A.col /\ AllNumeric(A)) =>
        res = Poly(CharDeterminant(A, FirstKey(A.row), 0, PolyOne(A.row)))

(***************************************************************************)
(* transpose against the entries of the original.                          *)
(***************************************************************************)
TransposeEntries ==
    op = "transpose" =>
        /\ res.tag = "matrix"
        /\ res.v.row = A.col
        /\ res.v.col = A.row
        /\ \A i \in 0 .. A.row - 1 : \A j \in 0 .. A.col - 1 :
              res.v.m[j * A.row + i] = A.m[i * A.col + j]

TransposeInvolution == op = "transpose.transpose" => res = Mat(A)


(* C10: transpose(A) of an r x c matrix is a c x r matrix whose entry      *)
(* (j,i) is A(i,j), and transpose(transpose(A)) is A.                      *)
TransposeAgree == TransposeEntries /\ TransposeInvolution

TransposeAgreeReached ==
    /\ op = "transpose.transpose"
    /\ A.row = 2
    /\ A.col = 3
    /\ A.m[1] # A.m[3]
    /\ res = Mat(A)

(***************************************************************************)
(* Reached states of the remaining claims.                                 *)
(***************************************************************************)
SolveInconsistentReached ==
    /\ op = "solve"
    /\ res = InconsistentSystemError
    /\ A.row = 2 /\ A.col = 2
    /\ MathRank(A) = 1

PowAgreeReached ==
    /\ op = "pow"
    /\ arg = Num(-5)
    /\ A.row = 2
    /\ res.tag = "matrix"
    /\ \E i \in DOMAIN res.v.m : res.v.m[i] \in {Num(5), Num(-5)}

CharpolyAgreeReached ==
    /\ op = "charpoly"
    /\ A.row = 3
    /\ AllNumeric(A)
    /\ res.tag = "poly"
    /\ res.v[0] # _ex0
    /\ res.v[1] # _ex0
    /\ res.v[2] # _ex0

(* the determinant against the mathematical one for the matrices of at     *)
(* least one row                                                           *)
DetAgreeNonEmpty ==
    (op = "determinant" /\ A.row >= 1) =>
        (res.tag = "ex" /\ normal(res.v) = MathDet(A))

(* C7: for square A and B of the same dimension and every determinant      *)
(* algorithm, determinant(A.mul(B)) has the normal form of                 *)
(* determinant(A)*determinant(B).                                          *)
MulDetAgree == op = "mul.determinant" => Multiplicative

(* the product rule for the matrices of at least one row *)
MulDetAgreeNonEmpty == (op = "mul.determinant" /\ A.row >= 1) => Multiplicative

(***************************************************************************)
(* Specification SpecMul: L.mul(R) of an r x k matrix L and a k x c matrix *)
(* R of at most four cells each.                                           *)
(***************************************************************************)
InitMul ==
    /\ \E r \in 0 .. MaxCells : \E k \in 0 .. MaxCells : \E c \in 0 .. MaxCells :
          /\ r * k <= 4
          /\ k * c <= 4
          /\ A \in Matrices(r, k)
          /\ B \in MatricesOf(k, c, Signs)
    /\ op = "none"
    /\ arg = "none"
    /\ res = NoResult

Mul ==
    /\ op = "none"
    /\ res' = mul(A, B)
    /\ op' = "mul"
    /\ UNCHANGED <<A, B, arg>>

NextMul == Mul

SpecMul == InitMul /\ [][NextMul]_vars

(* the sum over t of L(i,t)*R(t,j), every product taken *)
RECURSIVE TripleSum(_, _, _, _, _)
TripleSum(L, R, i, j, t) ==
    IF t = 0 THEN _ex0
    ELSE EAdd(TripleSum(L, R, i, j, t - 1),
              EMul(L.m[i * L.col + (t - 1)], R.m[(t - 1) * R.col + j]))

(* C11: L.mul(R) of an r x k and a k x c matrix is the r x c matrix whose   *)
(* (i,j) entry is the sum over t of L(i,t)*R(t,j) with every product       *)
(* taken: leaving out the products of the exact zeros of L changes nothing.*)
MulTripleProduct ==
    op = "mul" =>
        /\ res.tag = "matrix"
        /\ res.v.row = A.row
        /\ res.v.col = B.col
        /\ DOMAIN res.v.m = Cells(A.row, B.col)
        /\ \A i \in 0 .. A.row - 1 : \A j \in 0 .. B.col - 1 :
              res.v.m[i * B.col + j] = TripleSum(A, B, i, j, A.col)

(* a 2 x 2 product in which a product of an exact zero of L was left out   *)
(* and the entry is not zero                                               *)
MulTripleProductReached ==
    /\ op = "mul"
    /\ A.row = 2 /\ A.col = 2 /\ B.col = 2
    /\ is_zero(A.m[0])
    /\ ~is_zero(B.m[0])
    /\ ~is_zero(A.m[1])
    /\ ~is_zero(res.v.m[0])
    /\ ~is_numeric(res.v.m[3])

(***************************************************************************)
(* matrix::add and matrix::sub.                                            *)
(***************************************************************************)
add(M, other) ==
    IF M.col # other.col \/ M.row # other.row
    THEN Error("logic_error", "matrix::add(): incompatible matrices")
    ELSE Mat(matrix_rep(M.row, M.col,
                [i \in Cells(M.row, M.col) |-> EAdd(M.m[i], other.m[i])]))

(* only the row counts are compared *)
subRowsOnly(M, other) ==
    IF M.row # other.row
    THEN Error("logic_error", "matrix::sub(): incompatible matrices")
    ELSE Mat(matrix_rep(M.row, M.col,
                [i \in Cells(M.row, M.col) |->
                    IF i \in DOMAIN other.m THEN ESub(M.m[i], other.m[i])
                    ELSE M.m[i]]))

sub(M, other) ==
    IF M.col # other.col \/ M.row # other.row
    THEN Error("logic_error", "matrix::sub(): incompatible matrices")
    ELSE Mat(matrix_rep(M.row, M.col,
                [i \in Cells(M.row, M.col) |-> ESub(M.m[i], other.m[i])]))

(***************************************************************************)
(* Specification SpecShape: the operations with a shape precondition on    *)
(* matrices of every shape of at most four cells with entries 0, 1.        *)
(***************************************************************************)
ShapeExponents == {Num(2), Num(-1), Mk(1, 2, 0)}

InitShape ==
    /\ \E r \in 0 .. MaxCells : \E c \in 0 .. MaxCells :
          /\ r * c <= 4
          /\ A \in MatricesOf(r, c, Bits)
    /\ \E r \in 0 .. MaxCells : \E c \in 0 .. MaxCells :
          /\ r * c <= 4
          /\ B \in MatricesOf(r, c, Bits)
    /\ op = "none"
    /\ arg = "none"
    /\ res = NoResult

ShapeAdd ==
    /\ op = "none"
    /\ res' = add(A, B)
    /\ op' = "add"
    /\ UNCHANGED <<A, B, arg>>

ShapeSub ==
    /\ op = "none"
    /\ res' = sub(A, B)
    /\ op' = "sub"
    /\ UNCHANGED <<A, B, arg>>

ShapeMul ==
    /\ op = "none"
    /\ res' = mul(A, B)
    /\ op' = "mul"
    /\ UNCHANGED <<A, B, arg>>

ShapeDeterminant(algo) ==
    /\ op = "none"
    /\ \E r \in determinant(A, algo) : res' = r
    /\ op' = "determinant"
    /\ arg' = algo
    /\ UNCHANGED <<A, B>>

ShapeCharpoly ==
    /\ op = "none"
    /\ res' = charpoly(A)
    /\ op' = "charpoly"
    /\ UNCHANGED <<A, B, arg>>

ShapeInverse(algo) ==
    /\ op = "none"
    /\ res' = inverse(A, algo)
    /\ op' = "inverse"
    /\ arg' = algo
    /\ UNCHANGED <<A, B>>

ShapePow(expn) ==
    /\ op = "none"
    /\ res' = pow(A, expn)
    /\ op' = "pow"
    /\ arg' = expn
    /\ UNCHANGED <<A, B>>

ShapeTrace ==
    /\ op = "none"
    /\ res' = trace(A)
    /\ op' = "trace"
    /\ UNCHANGED <<A, B, arg>>

NextShape ==
    \/ ShapeAdd
    \/ ShapeSub
    \/ ShapeMul
    \/ \E algo \in DeterminantAlgos : ShapeDeterminant(algo)
    \/ ShapeCharpoly
    \/ \E algo \in SolveAlgos : ShapeInverse(algo)
    \/ \E expn \in ShapeExponents : ShapePow(expn)
    \/ ShapeTrace

SpecShape == InitShape /\ [][NextShape]_vars

DimensionError(r) == r.tag = "error" /\ r.cls = "logic_error"

(* C12: add and sub of operands whose row or column counts differ, mul     *)
(* with lhs.cols # rhs.rows, and determinant, charpoly, inverse, pow and   *)
(* trace of a non-square matrix end in a DimensionError (std::logic_error) *)
(* and return no result.                                                   *)
ShapeErrors ==
    /\ (op \in {"add", "sub"} /\ (A.row # B.row \/ A.col # B.col)) =>
          DimensionError(res)
    /\ (op = "mul" /\ A.col # B.row) => DimensionError(res)
    /\ (op \in {"determinant", "charpoly", "inverse", "pow", "trace"}
          /\ A.row # A.col) => DimensionError(res)

(* sub of a 2 x 1 and a 2 x 2 matrix, which agree in the row count only *)
ShapeErrorsReached ==
    /\ op = "sub"
    /\ A.row = 2 /\ A.col = 1
    /\ B.row = 2 /\ B.col = 2
    /\ DimensionError(res)

(***************************************************************************)
(* The return value of rank.                                               *)
(***************************************************************************)
(* C13: rank returns 1 + the row index of the last nonzero entry of the    *)
(* echelon-reduced copy, 0 when that copy has no nonzero entry, and this   *)
(* number is the number of linearly independent rows of the input, also    *)
(* when the entries that look nonzero are zero after normalization.        *)
RankIndependentRows ==
    op = "rank" =>
        /\ res = IF LastNonZero(echelon_form(A, arg, A.col).M.m, A.row * A.col) >= 0
                 THEN Unsigned(1 + LastNonZero(echelon_form(A, arg, A.col).M.m,
                                               A.row * A.col) \div A.col)
                 ELSE Unsigned(0)
        /\ res = Unsigned(MathRank(A))

(***************************************************************************)
(* Construction: the constructors, read_archive, lst_to_matrix and the     *)
(* writing operator().  A list is a sequence and an initializer list of    *)
(* rows a sequence of sequences.  An element of the lst given to           *)
(* lst_to_matrix is a record [list, elems]: a list of the elements elems,  *)
(* or not a list at all.                                                   *)
(***************************************************************************)
MaxLen == 3

(* matrix::matrix() *)
matrix_default == [row |-> 1, col |-> 1, m |-> [i \in 0 .. 0 |-> _ex0]]

(* the loop of the constructor from a flat list, from element i on *)
RECURSIVE ListFill(_, _, _, _, _)
ListFill(mm, r, c, l, i) ==
    IF i >= Len(l) THEN [ok |-> TRUE, m |-> mm]
    ELSE IF (i \div c) >= r THEN [ok |-> TRUE, m |-> mm]
    ELSE IF ((i \div c) * c + (i % c)) \notin DOMAIN mm
    THEN [ok |-> FALSE, m |-> mm]
    ELSE ListFill([mm EXCEPT ![(i \div c) * c + (i % c)] = l[i + 1]],
                  r, c, l, i + 1)

ListFilled(t, r, c) == IF t.ok THEN Mat(matrix_rep(r, c, t.m)) ELSE Crash

(* matrix::matrix(unsigned r, unsigned c, const lst & l): i % c divides by  *)
(* zero for c = 0 as soon as the list has an element; a write outside the  *)
(* vector is a crash                                                       *)
matrix_lst(r, c, l) ==
    IF Len(l) = 0 THEN {Mat(matrix(r, c))}
    ELSE IF c = 0 THEN {Crash, Mat(matrix(r, c))}
    ELSE {ListFilled(ListFill(matrix(r, c).m, r, c, l, 0), r, c)}

(* the elements pushed until the first row whose length is not col *)
RECURSIVE NestedFill(_, _, _, _)
NestedFill(l, k, c, acc) ==
    IF k > Len(l) THEN [ok |-> TRUE, m |-> acc]
    ELSE IF Len(l[k]) # c THEN [ok |-> FALSE, m |-> acc \o l[k]]
    ELSE NestedFill(l, k + 1, c, acc \o l[k])

ZeroBased(s) == [i \in 0 .. (Len(s) - 1) |-> s[i + 1]]

NestedFilled(t, r, c) ==
    IF t.ok THEN Mat(matrix_rep(r, c, ZeroBased(t.m)))
    ELSE Error("invalid_argument", "matrix::matrix{{}}: wrong dimension")

(* what l.begin()->size() of an empty initializer list can be read as *)
GarbageCols == {0, 1, Half}

(* matrix::matrix(std::initializer_list<std::initializer_list<ex>> l) *)
matrix_nested(l) ==
    IF Len(l) = 0
    THEN {Crash} \cup {Mat(matrix_rep(0, c, ZeroBased(<<>>))) : c \in GarbageCols}
    ELSE {NestedFilled(NestedFill(l, 1, Len(l[1]), <<>>), Len(l), Len(l[1]))}

NotAList == [list |-> FALSE, elems |-> <<>>]

AList(s) == [list |-> TRUE, elems |-> s]

RECURSIVE MaxNops(_, _, _)
MaxNops(l, k, cols) ==
    IF k > Len(l) THEN cols
    ELSE MaxNops(l, k + 1,
                 IF Len(l[k].elems) > cols THEN Len(l[k].elems) ELSE cols)

(* lst_to_matrix(const lst & l) *)
lst_to_matrix(l) ==
    IF \E k \in 1 .. Len(l) : ~l[k].list
    THEN Error("invalid_argument", "lst_to_matrix: argument must be a list of lists")
    ELSE Mat(matrix_rep(Len(l), MaxNops(l, 1, 0),
                [i \in Cells(Len(l), MaxNops(l, 1, 0)) |->
                    IF (i % MaxNops(l, 1, 0))
                          < Len(l[(i \div MaxNops(l, 1, 0)) + 1].elems)
                    THEN l[(i \div MaxNops(l, 1, 0)) + 1].elems[
                            (i % MaxNops(l, 1, 0)) + 1]
                    ELSE _ex0]))

(* an archive node: the properties "row" and "col" (Absent when missing)   *)
(* and the sequence of the properties "m"                                  *)
Absent == 0 - 1

(* matrix::read_archive *)
read_archive(n) ==
    IF n.row = Absent \/ n.col = Absent
    THEN Error("runtime_error", "unknown matrix dimensions in archive")
    ELSE Mat(matrix_rep(n.row, n.col, ZeroBased(n.m)))

(* ex & matrix::operator() (unsigned ro, unsigned co), assigned e *)
SetElement(M, ro, co, e) ==
    IF ro >= M.row \/ co >= M.col
    THEN Error("range_error", "matrix::operator(): index out of range")
    ELSE IF (UnsignedProduct(ro, M.col) + co) \notin DOMAIN M.m THEN Crash
    ELSE Mat(matrix_rep(M.row, M.col,
                [M.m EXCEPT ![UnsignedProduct(ro, M.col) + co] = e]))

(***************************************************************************)
(* Specification SpecData: a matrix object A, built by matrix(), replaced  *)
(* once by the result of a constructor, of lst_to_matrix or of             *)
(* read_archive, then written to through operator() and at last eliminated *)
(* in place.  A failed call leaves A as it was.  Dimensions are 0, 1, 2    *)
(* and 2^16.                                                               *)
(***************************************************************************)
DataDims == {0, 1, 2, Half}

ListsOf(S, n) == UNION {[1 .. k -> S] : k \in 0 .. n}

FlatLists == ListsOf(Bits, MaxLen)

Rows == ListsOf(Bits, MaxLen - 1)

NestedLists == ListsOf(Rows, MaxLen - 1)

MixedLists == ListsOf({AList(s) : s \in Rows} \cup {NotAList}, MaxLen - 1)

ArchiveNodes ==
    [row : DataDims \cup {Absent}, col : DataDims \cup {Absent}, m : FlatLists]

Eliminations == {"gauss", "divfree", "bareiss", "markowitz"}

InitData ==
    /\ A = matrix_default
    /\ B = NoMatrix
    /\ op = "none"
    /\ arg = "none"
    /\ res = NoResult

(* the object after a call with outcome o *)
Produced(o) == IF o.tag = "matrix" THEN o.v ELSE A

Construct(r, c) ==
    /\ op = "none"
    /\ UnsignedProduct(r, c) <= MaxCells
    /\ res' = Mat(matrix(r, c))
    /\ A' = matrix(r, c)
    /\ op' = "matrix(r,c)"
    /\ UNCHANGED <<B, arg>>

ConstructList(r, c, l) ==
    /\ op = "none"
    /\ UnsignedProduct(r, c) <= MaxCells
    /\ \E o \in matrix_lst(r, c, l) : res' = o /\ A' = Produced(o)
    /\ op' = "matrix(r,c,lst)"
    /\ arg' = [r |-> r, c |-> c, l |-> l]
    /\ UNCHANGED B

ConstructNested(l) ==
    /\ op = "none"
    /\ \E o \in matrix_nested(l) : res' = o /\ A' = Produced(o)
    /\ op' = "matrix{{}}"
    /\ arg' = l
    /\ UNCHANGED B

ListToMatrix(l) ==
    /\ op = "none"
    /\ res' = lst_to_matrix(l)
    /\ A' = Produced(lst_to_matrix(l))
    /\ op' = "lst_to_matrix"
    /\ arg' = l
    /\ UNCHANGED B

ReadArchive(n) ==
    /\ op = "none"
    /\ res' = read_archive(n)
    /\ A' = Produced(read_archive(n))
    /\ op' = "read_archive"
    /\ UNCHANGED <<B, arg>>

Write(ro, co, e) ==
    /\ op # "eliminate"
    /\ res' = SetElement(A, ro, co, e)
    /\ A' = Produced(SetElement(A, ro, co, e))
    /\ op' = "write"
    /\ UNCHANGED <<B, arg>>

(* the eliminations run on the working copies that determinant, solve and  *)
(* rank make of a matrix whose vector holds row*col elements               *)
Eliminate(algo) ==
    /\ op # "eliminate"
    /\ A.row < Half /\ A.col < Half
    /\ DOMAIN A.m = Cells(A.row, A.col)
    /\ A' = echelon_form(A, algo, A.col).M
    /\ res' = Mat(echelon_form(A, algo, A.col).M)
    /\ op' = "eliminate"
    /\ UNCHANGED <<B, arg>>

NextData ==
    \/ \E r \in DataDims : \E c \in DataDims : Construct(r, c)
    \/ \E r \in DataDims : \E c \in DataDims : \E l \in FlatLists :
          ConstructList(r, c, l)
    \/ \E l \in NestedLists : ConstructNested(l)
    \/ \E l \in MixedLists : ListToMatrix(l)
    \/ \E n \in ArchiveNodes : ReadArchive(n)
    \/ \E ro \in DataDims : \E co \in DataDims : \E e \in Bits : Write(ro, co, e)
    \/ \E algo \in Eliminations : Eliminate(algo)

SpecData == InitData /\ [][NextData]_vars

(* the vector of M holds exactly row*col elements, the product taken in    *)
(* the integers                                                            *)
LengthIsProduct(M) ==
    IF M.row = 0 \/ M.col = 0 THEN Cardinality(DOMAIN M.m) = 0
    ELSE /\ Cardinality(DOMAIN M.m) % M.col = 0
         /\ Cardinality(DOMAIN M.m) \div M.col = M.row

(* C14: after every constructor, after read_archive, after every element   *)
(* write and every elimination the backing sequence has exactly rows*cols  *)
(* elements, for all row and column counts an unsigned can hold.           *)
DataLength == LengthIsProduct(A)

(* the calls other than read_archive keep the length right, unless the     *)
(* product of the dimensions does not fit an unsigned                      *)
DataLengthKept ==
    [][(LengthIsProduct(A) /\ op' # "read_archive"
          /\ ~(A'.row = Half /\ A'.col = Half)) => LengthIsProduct(A')]_vars

(***************************************************************************)
(* The constructor from a flat list.                                       *)
(***************************************************************************)
ListElements ==
    /\ res.tag = "matrix"
    /\ res.v.row = arg.r
    /\ res.v.col = arg.c
    /\ LengthIsProduct(res.v)
    /\ \A i \in DOMAIN res.v.m :
          res.v.m[i] = IF i < Len(arg.l) THEN arg.l[i + 1] ELSE _ex0

(* C15: constructing an r x c matrix from a flat list L never fails and    *)
(* yields the matrix whose row-major element i is L[i] for                 *)
(* i < min(|L|, r*c) and the zero expression elsewhere, for all r, c >= 0. *)
ListConstructed == op = "matrix(r,c,lst)" => ListElements

(* the same for matrices of at least one column whose number of cells fits *)
(* an unsigned                                                             *)
ListConstructedColumns ==
    (op = "matrix(r,c,lst)" /\ arg.c > 0 /\ ~(arg.r = Half /\ arg.c = Half)) =>
        ListElements

(***************************************************************************)
(* The construction from a nested list.                                    *)
(***************************************************************************)
(* the rows of the initializer list do not all have the same length *)
RaggedRows(l) == \E j \in 1 .. Len(l) : \E k \in 1 .. Len(l) : Len(l[j]) # Len(l[k])

(* the elements of the lst are lists that do not all have the same length *)
RaggedLists(l) ==
    /\ \A k \in 1 .. Len(l) : l[k].list
    /\ \E j \in 1 .. Len(l) : \E k \in 1 .. Len(l) :
          Len(l[j].elems) # Len(l[k].elems)

(* C16: constructing a matrix from a nested list whose rows do not all     *)
(* have the same length is a construction error and produces no matrix,    *)
(* through the initializer-list constructor and through lst_to_matrix.     *)
NestedRagged ==
    /\ (op = "matrix{{}}" /\ RaggedRows(arg)) =>
          (res.tag = "error" /\ A = matrix_default)
    /\ (op = "lst_to_matrix" /\ RaggedLists(arg)) =>
          (res.tag = "error" /\ A = matrix_default)

(* the same for the initializer-list constructor alone *)
NestedRaggedInitializer ==
    (op = "matrix{{}}" /\ RaggedRows(arg)) =>
        (res = Error("invalid_argument", "matrix::matrix{{}}: wrong dimension")
           /\ A = matrix_default)

(***************************************************************************)
(* Specification SpecFrame: one call of determinant, solve, rank, inverse  *)
(* or charpoly on the receiver A, with every algorithm tag and a tag that  *)
(* is not in the enum.  B holds the arguments of solve: the right-hand     *)
(* side and the matrix of symbols.                                         *)
(***************************************************************************)
InitFrame ==
    /\ \E m \in 0 .. MaxCells : \E n \in 0 .. MaxCells : \E p \in 0 .. 1 :
          /\ m * n <= 4
          /\ A \in MatricesOf(m, n, Signs)
          /\ \E rhs \in MatricesOf(m, p, Bits) :
                B = [rhs |-> rhs, vars |-> SymbolMatrix(n, p)]
    /\ op = "none"
    /\ arg = "none"
    /\ res = NoResult

FrameDeterminant(algo) ==
    /\ op = "none"
    /\ \E r \in determinant(A, algo) : res' = r
    /\ op' = "determinant"
    /\ arg' = algo
    /\ UNCHANGED <<A, B>>

FrameSolve(algo) ==
    /\ op = "none"
    /\ res' = solve(A, B.vars, B.rhs, algo)
    /\ op' = "solve"
    /\ arg' = algo
    /\ UNCHANGED <<A, B>>

(* the elimination runs on the receiver itself *)
FrameRankInPlace(algo) ==
    /\ op = "none"
    /\ res' = rank(A, algo)
    /\ A' = echelon_form(A, algo, A.col).M
    /\ op' = "rank"
    /\ arg' = algo
    /\ UNCHANGED B

FrameRank(algo) ==
    /\ op = "none"
    /\ res' = rank(A, algo)
    /\ op' = "rank"
    /\ arg' = algo
    /\ UNCHANGED <<A, B>>

FrameInverse(algo) ==
    /\ op = "none"
    /\ res' = inverse(A, algo)
    /\ op' = "inverse"
    /\ arg' = algo
    /\ UNCHANGED <<A, B>>

FrameCharpoly ==
    /\ op = "none"
    /\ res' = charpoly(A)
    /\ op' = "charpoly"
    /\ UNCHANGED <<A, B, arg>>

(* "unknown" is a tag outside the enum *)
NextFrame ==
    \/ \E algo \in DeterminantAlgos \cup {"unknown"} : FrameDeterminant(algo)
    \/ \E algo \in InverseAlgos : FrameSolve(algo)
    \/ \E algo \in InverseAlgos : FrameRank(algo)
    \/ \E algo \in InverseAlgos : FrameInverse(algo)
    \/ FrameCharpoly

SpecFrame == InitFrame /\ [][NextFrame]_vars

ArgumentError(r) == r.tag = "error" /\ r.cls = "invalid_argument"

(* C18: determinant, solve, inverse and rank, called with valid shapes and *)
(* a tag that is not a member of the selector enum, report an              *)
(* ArgumentError (std::invalid_argument) and run no algorithm.             *)
AlgoTagChecked ==
    /\ (op = "determinant" /\ arg = "unknown" /\ A.row = A.col) =>
          ArgumentError(res)
    /\ (op \in {"solve", "rank"} /\ arg = "unknown") => ArgumentError(res)
    /\ (op = "inverse" /\ arg = "unknown" /\ A.row = A.col) =>
          ArgumentError(res)

(* the same for the operations that go through echelon_form *)
AlgoTagCheckedEchelon ==
    /\ (op \in {"solve", "rank"} /\ arg = "unknown") => res = EchelonError
    /\ (op = "inverse" /\ arg = "unknown" /\ A.row = A.col) =>
          res = EchelonError

(***************************************************************************)
(* Specification SpecSolveArgs: solve(vars, rhs, algo) with a receiver, a  *)
(* right-hand side and a matrix vars of any shapes of at most two rows and *)
(* columns.  An entry of vars is its own symbol or 0 (not a symbol).       *)
(***************************************************************************)
ArgDims == 0 .. 2

VarsMatrices(n, p) ==
    {matrix_rep(n, p, [i \in Cells(n, p) |-> IF i \in S THEN 0 ELSE i + 1]) :
        S \in SUBSET Cells(n, p)}

InitSolveArgs ==
    /\ \E m \in ArgDims : \E n \in ArgDims : A \in MatricesOf(m, n, Bits)
    /\ \E r \in ArgDims : \E p \in ArgDims : \E n \in ArgDims : \E c \in ArgDims :
          \E rhs \in MatricesOf(r, p, Bits) : \E xvars \in VarsMatrices(n, c) :
             B = [rhs |-> rhs, vars |-> xvars]
    /\ op = "none"
    /\ arg = "none"
    /\ res = NoResult

SolveArgs(algo) ==
    /\ op = "none"
    /\ res' = solve(A, B.vars, B.rhs, algo)
    /\ op' = "solve"
    /\ arg' = algo
    /\ UNCHANGED <<A, B>>

NextSolveArgs == \E algo \in InverseAlgos : SolveArgs(algo)

SpecSolveArgs == InitSolveArgs /\ [][NextSolveArgs]_vars

ShapesFit == B.rhs.row = A.row /\ B.vars.row = A.col /\ B.vars.col = B.rhs.col

AllSymbols == \A i \in DOMAIN B.vars.m : B.vars.m[i] # 0

(* C19: solve fails with the DimensionError of solve unless                *)
(* rhs.rows = m, vars.rows = n and vars.cols = p, whatever the entries of  *)
(* vars and the tag are; with fitting shapes it fails with the             *)
(* ArgumentError for vars if an entry of vars is not a symbol, whatever    *)
(* the tag and the system are; with valid arguments it fails with neither. *)
SolveValidation ==
    op = "solve" =>
        /\ ~ShapesFit =>
              res = Error("logic_error", "matrix::solve(): incompatible matrices")
        /\ (ShapesFit /\ ~AllSymbols) =>
              res = Error("invalid_argument",
                          "matrix::solve(): 1st argument must be matrix of symbols")
        /\ (ShapesFit /\ AllSymbols) =>
              (res.tag = "error" =>
                  res \in {EchelonError, InconsistentSystemError})

(* both violations at once: vars of the wrong shape with an entry that is  *)
(* not a symbol, and a tag outside the enum                                *)
SolveValidationReached ==
    /\ op = "solve"
    /\ arg = "unknown"
    /\ A.row = 2 /\ A.col = 2
    /\ B.rhs.row = 2
    /\ B.vars.row = 1
    /\ ~AllSymbols
    /\ DimensionError(res)

(***************************************************************************)
(* Specification SpecEchelon: one elimination in non-determinant mode, as  *)
(* echelon_form runs it for rank, on a matrix of any shape.                *)
(***************************************************************************)
InitEchelon ==
    /\ \E r \in 0 .. MaxCells : \E c \in 0 .. MaxCells :
          /\ r * c <= MaxCells
          /\ A \in (IF r = c THEN Matrices(r, c) ELSE BitMatrices(r, c))
                    \cup HiddenZeroMatrices
    /\ B = NoMatrix
    /\ op = "none"
    /\ arg = "none"
    /\ res = NoResult

Echelon(algo) ==
    /\ op = "none"
    /\ res' = Mat(echelon_form(A, algo, A.col).M)
    /\ op' = "echelon_form"
    /\ arg' = algo
    /\ UNCHANGED <<A, B>>

NextEchelon == \E algo \in Eliminations : Echelon(algo)

SpecEchelon == InitEchelon /\ [][NextEchelon]_vars

(* the column of the first entry of row r that is not the exact zero, or   *)
(* the number of columns for a row of exact zeros                          *)
RECURSIVE Leading(_, _, _)
Leading(M, r, c) ==
    IF c >= M.col THEN M.col
    ELSE IF ~is_zero(M.m[r * M.col + c]) THEN c
    ELSE Leading(M, r, c + 1)

UpperEchelon(M) ==
    \A r \in 0 .. M.row - 2 :
        \/ Leading(M, r + 1, 0) = M.col
        \/ Leading(M, r, 0) < Leading(M, r + 1, 0)

(* C20: after gauss_elimination, division_free_elimination,                *)
(* fraction_free_elimination or markowitz_elimination in non-determinant   *)
(* mode the matrix is in upper echelon form: the column of the leading     *)
(* nonzero entry strictly increases from row to row, rows of zeros are     *)
(* last, and the entries below a pivot are the exact zero expression, for  *)
(* every shape and rank.                                                   *)
EchelonForm ==
    op = "echelon_form" =>
        /\ res.v.row = A.row
        /\ res.v.col = A.col
        /\ UpperEchelon(res.v)

(* the same for matrices of numeric entries *)
EchelonFormNumeric == (op = "echelon_form" /\ AllNumeric(A)) => UpperEchelon(res.v)


(* a 3 x 3 matrix of rank 2 that the Markowitz elimination changed *)
EchelonFormReached ==
    /\ op = "echelon_form"
    /\ arg = "markowitz"
    /\ A.row = 3 /\ A.col = 3
    /\ MathRank(A) = 2
    /\ res.v # A

(***************************************************************************)
(* Specification SpecSign: gauss_elimination, division_free_elimination    *)
(* and fraction_free_elimination of a square matrix, in determinant mode   *)
(* and not, with the int they return.                                      *)
(***************************************************************************)
SignAlgos == {"gauss", "divfree", "bareiss"}

Signed(t) == [tag |-> "sign", sign |-> t.sign, M |-> t.M]

EliminationOf(M, algo, det) ==
    CASE algo = "gauss" -> gauss_elimination(M, det)
      [] algo = "divfree" -> division_free_elimination(M, det)
      [] OTHER -> fraction_free_elimination(M, det)

InitSign ==
    /\ \E n \in 0 .. MaxCells : n * n <= MaxCells /\ A \in Matrices(n, n)
    /\ B = NoMatrix
    /\ op = "none"
    /\ arg = "none"
    /\ res = NoResult

SignElimination(algo, det) ==
    /\ op = "none"
    /\ res' = Signed(EliminationOf(A, algo, det))
    /\ op' = "elimination"
    /\ arg' = [algo |-> algo, det |-> det]
    /\ UNCHANGED <<A, B>>

NextSign == \E algo \in SignAlgos : \E det \in BOOLEAN : SignElimination(algo, det)

SpecSign == InitSign /\ [][NextSign]_vars

(* the determinant that matrix::determinant puts together from the         *)
(* eliminated matrix and the sign                                          *)
SignedDeterminant(algo, sign, M) ==
    IF M.row = 0 THEN Num(sign)
    ELSE CASE algo = "gauss" -> normal(ESign(sign, DiagProduct(M, 0, _ex1)))
           [] algo = "divfree" ->
                normal(ESign(sign, FactorOutSlag(M, 0, 0, M.m[M.row * M.col - 1])))
           [] OTHER -> normal(ESign(sign, M.m[M.row * M.col - 1]))

(* +1 for an even and -1 for an odd number of row swaps: with this sign    *)
(* the eliminated matrix gives the determinant of A                        *)
SwapParity ==
    /\ res.sign \in {1, 0 - 1}
    /\ SignedDeterminant(arg.algo, res.sign, res.M) = MathDet(A)

(* C21: gauss_elimination, division_free_elimination and                   *)
(* fraction_free_elimination return 0 if the matrix is singular and        *)
(* otherwise +1 for an even and -1 for an odd number of row swaps.         *)
SignReturned ==
    op = "elimination" =>
        IF MathDet(A) = _ex0 THEN res.sign = 0 ELSE SwapParity

(* 0 is returned for singular matrices only, and a matrix that is not      *)
(* singular gets the parity of the row swaps                               *)
SignOfRegular ==
    op = "elimination" =>
        /\ res.sign = 0 => MathDet(A) = _ex0
        /\ MathDet(A) # _ex0 => SwapParity

(***************************************************************************)
(* matrix::pivot, symbolic == false, on a column of numeric entries.       *)
(***************************************************************************)
(* abs(a) > b for numerics a, b *)
AbsGreater(a, b) == Abs(a[1]) * b[2] > b[1] * a[2]

EAbs(a) == <<Abs(a[1]), a[2], a[3]>>

(* the loop "while (kmax<row)": [k, mmax] after it *)
RECURSIVE PivotScan(_, _, _, _, _)
PivotScan(M, co, kmax, k, mmax) ==
    IF kmax < M.row
    THEN IF AbsGreater(M.m[kmax * M.col + co], mmax)
         THEN PivotScan(M, co, kmax + 1, kmax, M.m[kmax * M.col + co])
         ELSE PivotScan(M, co, kmax + 1, k, mmax)
    ELSE [k |-> k, mmax |-> mmax]

(* the value of k after "if (!mmax.is_zero()) k = kmax", kmax having       *)
(* reached the end of the loop                                             *)
PivotChosen(M, ro, s) ==
    IF ~is_zero(s.mmax) THEN Max2(ro + 1, M.row) ELSE s.k

Pivoted(indx, M) == [tag |-> "pivot", indx |-> indx, M |-> M]

(* the returns and the swap that end pivot, for the row k *)
PivotReturn(M, ro, k) ==
    IF k = M.row THEN Pivoted(0 - 1, M)
    ELSE IF k = ro THEN Pivoted(0, M)
    ELSE Pivoted(k, [M EXCEPT !.m = SwapRows(M.m, M.col, k, ro, 0)])

(* what m[(ro+1)*col+co] can be read as, when it is outside the vector *)
GarbageNumerics == {Num(v) : v \in 0 .. MaxVal}

pivot_numeric(M, ro, co) ==
    IF ((ro + 1) * M.col + co) \in DOMAIN M.m
    THEN {PivotReturn(M, ro,
              PivotChosen(M, ro,
                  PivotScan(M, co, ro + 1, ro, EAbs(M.m[(ro + 1) * M.col + co]))))}
    ELSE {Crash} \cup
         {PivotReturn(M, ro, PivotChosen(M, ro, PivotScan(M, co, ro + 1, ro, g))) :
             g \in GarbageNumerics}

(***************************************************************************)
(* Specification SpecPivot: one call pivot(ro, co, symbolic) on a matrix   *)
(* of at most four cells.  Entries are the integers of absolute value up   *)
(* to MaxVal + 1 and, for symbolic == true, expressions that are zero or   *)
(* one only after expansion.                                               *)
(***************************************************************************)
PivotNumerics == {Num(v) : v \in (0 - MaxVal - 1) .. (MaxVal + 1)}

InitPivot ==
    /\ \E r \in 1 .. MaxCells : \E c \in 1 .. MaxCells :
          /\ r * c <= 4
          /\ A \in MatricesOf(r, c, PivotNumerics \cup Unexpanded)
    /\ B = NoMatrix
    /\ op = "none"
    /\ arg = "none"
    /\ res = NoResult

PivotSymbolic(ro, co) ==
    /\ op = "none"
    /\ ro < A.row /\ co < A.col
    /\ res' = Pivoted(pivot(A, ro, co).indx, pivot(A, ro, co).M)
    /\ op' = "pivot"
    /\ arg' = [ro |-> ro, co |-> co, symbolic |-> TRUE]
    /\ UNCHANGED <<A, B>>

PivotNumeric(ro, co) ==
    /\ op = "none"
    /\ ro < A.row /\ co < A.col
    /\ AllNumeric(A)
    /\ \E o \in pivot_numeric(A, ro, co) : res' = o
    /\ op' = "pivot"
    /\ arg' = [ro |-> ro, co |-> co, symbolic |-> FALSE]
    /\ UNCHANGED <<A, B>>

NextPivot ==
    \/ \E ro \in 0 .. MaxCells : \E co \in 0 .. MaxCells : PivotSymbolic(ro, co)
    \/ \E ro \in 0 .. MaxCells : \E co \in 0 .. MaxCells : PivotNumeric(ro, co)

SpecPivot == InitPivot /\ [][NextPivot]_vars

(* the rows >= ro whose entry in column co is not zero after expansion *)
NonZeroRows(M, ro, co) ==
    {k \in ro .. M.row - 1 : ~is_zero(expand(M.m[k * M.col + co]))}

FirstRow(S) == CHOOSE k \in S : \A j \in S : k <= j

(* rows k and ro of M exchanged, every other row as it was *)
RowsExchanged(M, k, ro) ==
    [M EXCEPT !.m = [i \in DOMAIN M.m |->
        IF i \div M.col = k THEN M.m[ro * M.col + (i % M.col)]
        ELSE IF i \div M.col = ro THEN M.m[k * M.col + (i % M.col)]
        ELSE M.m[i]]]

(* C22: pivot(ro, co, true) returns -1 exactly if every entry of column co *)
(* in the rows >= ro expands to zero, and leaves the matrix unchanged      *)
(* then; otherwise, k being the first row >= ro with a nonzero entry, it   *)
(* returns 0 and leaves the matrix unchanged for k = ro, and for k > ro    *)
(* returns k after exchanging exactly the rows k and ro, so that the entry *)
(* (ro, co) is nonzero afterwards.                                         *)
PivotSymbolicResult ==
    (op = "pivot" /\ arg.symbolic) =>
        IF NonZeroRows(A, arg.ro, arg.co) = {}
        THEN res = Pivoted(0 - 1, A)
        ELSE IF FirstRow(NonZeroRows(A, arg.ro, arg.co)) = arg.ro
        THEN res = Pivoted(0, A)
        ELSE /\ res = Pivoted(FirstRow(NonZeroRows(A, arg.ro, arg.co)),
                              RowsExchanged(A, FirstRow(NonZeroRows(A, arg.ro, arg.co)),
                                            arg.ro))
             /\ ~is_zero(expand(res.M.m[arg.ro * A.col + arg.co]))

(* rows 0 and 2 of a column were exchanged past a row whose entry is zero  *)
(* only after expansion                                                    *)
PivotSymbolicResultReached ==
    /\ op = "pivot"
    /\ arg.symbolic
    /\ arg.ro = 0
    /\ A.row = 3
    /\ A.m[0] = _ex0
    /\ A.m[1] = <<0, 1, 1>>
    /\ res.indx = 2


(* the rows >= ro whose entry in column co has the largest absolute value *)
MaxAbsRows(M, ro, co) ==
    {k \in ro .. M.row - 1 :
        \A j \in ro .. M.row - 1 :
            ~AbsGreater(M.m[j * M.col + co], EAbs(M.m[k * M.col + co]))}

(* C23: pivot(ro, co, false) on a numeric column returns -1 exactly if     *)
(* every entry of the column in the rows >= ro is zero; otherwise it       *)
(* exchanges a row of maximal absolute value with row ro and returns its   *)
(* index, or 0 if that row is ro; it reads no entry outside the rows       *)
(* ro .. row-1.                                                            *)
PivotNumericResult ==
    (op = "pivot" /\ ~arg.symbolic) =>
        /\ res # Crash
        /\ IF NonZeroRows(A, arg.ro, arg.co) = {}
           THEN res = Pivoted(0 - 1, A)
           ELSE \E k \in MaxAbsRows(A, arg.ro, arg.co) :
                   res = Pivoted(IF k = arg.ro THEN 0 ELSE k, RowsExchanged(A, k, arg.ro))


(***************************************************************************)
(* Specification SpecPivotRow: one Gauss or division-free elimination of a *)
(* matrix of at most four cells whose entries differ in absolute value.    *)
(***************************************************************************)
PivotRowAlgos == {"gauss", "divfree"}

PivotRowElimination(algo, det) ==
    /\ op = "none"
    /\ det => A.row = A.col
    /\ res' = Signed(EliminationOf(A, algo, det))
    /\ op' = "elimination"
    /\ arg' = [algo |-> algo, det |-> det]
    /\ UNCHANGED <<A, B>>

NextPivotRow ==
    \E algo \in PivotRowAlgos : \E det \in BOOLEAN : PivotRowElimination(algo, det)

SpecPivotRow == InitPivot /\ [][NextPivotRow]_vars

RowOf(M, r) == [c \in 0 .. M.col - 1 |-> M.m[r * M.col + c]]

(* the first row of the result is row k of the input: row k was the pivot  *)
(* row                                                                     *)
(* of the first column; determinant mode keeps of it the pivot entry only   *)
FirstPivotRow(k) ==
    IF arg.det THEN res.M.m[0] = A.m[k * A.col] ELSE RowOf(res.M, 0) = RowOf(A, k)

(* C24: Gauss elimination takes as pivot row of a column a row whose entry *)
(* has the largest absolute value, division-free elimination the first row *)
(* whose entry is not zero.                                                *)
PivotRowByAlgorithm ==
    (op = "elimination" /\ AllNumeric(A) /\ NonZeroRows(A, 0, 0) # {}) =>
        IF arg.algo = "gauss"
        THEN \E k \in MaxAbsRows(A, 0, 0) : FirstPivotRow(k)
        ELSE FirstPivotRow(FirstRow(NonZeroRows(A, 0, 0)))

(* C24, as the code has it: Gauss elimination and division-free            *)
(* elimination both take as pivot row of a column the first row whose      *)
(* entry is not zero after expansion.                                      *)
PivotRowSymbolic ==
    (op = "elimination" /\ NonZeroRows(A, 0, 0) # {}) =>
        FirstPivotRow(FirstRow(NonZeroRows(A, 0, 0)))

(* Gauss elimination of {{1,0},{2,1}} kept row 0 as the pivot row although *)
(* the entry of row 1 is larger                                            *)
PivotRowSymbolicReached ==
    /\ op = "elimination"
    /\ arg.algo = "gauss"
    /\ A.row = 2 /\ A.col = 2
    /\ RowOf(A, 0) = [c \in 0 .. 1 |-> IF c = 0 THEN _ex1 ELSE _ex0]
    /\ RowOf(A, 1) = [c \in 0 .. 1 |-> IF c = 0 THEN Num(2) ELSE _ex1]
    /\ res.sign = 1
    /\ FirstPivotRow(0)


(***************************************************************************)
(* Specification SpecAuto: echelon_form(solve_algo::automatic, n) on       *)
(* matrices whose cell count and number of nonzero entries lie around the  *)
(* thresholds of the heuristics.  The nonzero entries are all at the front *)
(* or all at the back of the vector; none, one or all of them are          *)
(* non-numeric.                                                            *)
(***************************************************************************)
AutoShapes ==
    {<<2, 2>>, <<1, 4>>, <<3, 4>>, <<13, 1>>, <<1, 13>>, <<7, 17>>,
     <<10, 12>>, <<10, 20>>, <<11, 19>>, <<19, 11>>, <<9, 23>>}

AutoDensities(ncells) ==
    {d \in 0 .. ncells :
        d \in {0, (ncells \div 2) - 1, ncells \div 2, (ncells \div 2) + 1,
               (3 * ncells) \div 5, ((3 * ncells) \div 5) + 1, ncells}}

AutoKinds == {"numeric", "one", "all"}

AutoMatrix(r, c, d, kind, front) ==
    [row |-> r, col |-> c,
     m |-> [i \in 0 .. (r * c - 1) |->
              LET j == IF front THEN i ELSE r * c - 1 - i
              IN  IF j >= d THEN _ex0
                  ELSE IF kind = "all" \/ (kind = "one" /\ j = 0) THEN <<1, 1, 1>>
                  ELSE _ex1]]

InitAuto ==
    /\ \E s \in AutoShapes : \E d \in AutoDensities(s[1] * s[2]) :
          \E kind \in AutoKinds : \E front \in BOOLEAN :
             A = AutoMatrix(s[1], s[2], d, kind, front)
    /\ B = NoMatrix
    /\ op = "none"
    /\ arg = "none"
    /\ res = NoResult

EchelonAuto(n) ==
    /\ op = "none"
    /\ n <= A.col
    /\ res' = [tag |-> "echelon",
               algo |-> EchelonAlgo(A, "automatic"),
               colid |-> echelon_form(A, "automatic", n).colid]
    /\ op' = "echelon_form"
    /\ arg' = n
    /\ UNCHANGED <<A, B>>

NextAuto == \E n \in 1 .. 2 : EchelonAuto(n)

SpecAuto == InitAuto /\ [][NextAuto]_vars

NonZeroCount(M) == Cardinality({i \in DOMAIN M.m : ~is_zero(M.m[i])})

IdentityColumns(M) == [c \in 0 .. M.col - 1 |-> c]

(* the algorithm as a function of the three statistics, "fewer than half"  *)
(* being either 2 * nonzero < cells or nonzero < cells / 2 rounded down    *)
AutoChoice(numeric, nonzero, cells, sparse) ==
    IF numeric
    THEN IF cells > 200 /\ sparse THEN "markowitz" ELSE "gauss"
    ELSE IF cells < 120 /\ 5 * nonzero > 3 * cells
         THEN IF cells <= 12 THEN "divfree" ELSE "bareiss"
         ELSE "markowitz"

(* C25: echelon_form with the automatic algorithm picks, for an            *)
(* all-numeric matrix, Markowitz exactly if there are more than 200 cells  *)
(* and fewer than 50% of them are nonzero, else Gauss; for a matrix with a *)
(* non-numeric entry, Markowitz unless there are fewer than 120 cells and  *)
(* more than 60% of them are nonzero, and then division-free for at most   *)
(* 12 cells and Bareiss otherwise; the returned column permutation is the  *)
(* identity of length cols unless Markowitz ran.                           *)
AutoResolved ==
    op = "echelon_form" =>
        /\ res.algo = AutoChoice(AllNumeric(A), NonZeroCount(A), A.row * A.col,
                                 2 * NonZeroCount(A) < A.row * A.col)
        /\ res.algo # "markowitz" => res.colid = IdentityColumns(A)

(* C25, as the code has it: "fewer than 50%" is nonzero < cells / 2 with   *)
(* the integer division of the code, so that for an odd cell count         *)
(* nonzero = (cells - 1) / 2 still selects Gauss.                          *)
AutoResolvedRounded ==
    op = "echelon_form" =>
        /\ res.algo = AutoChoice(AllNumeric(A), NonZeroCount(A), A.row * A.col,
                                 NonZeroCount(A) < (A.row * A.col) \div 2)
        /\ res.algo # "markowitz" => res.colid = IdentityColumns(A)

(* a numeric matrix of 209 cells with 104 nonzero entries was resolved to  *)
(* Gauss and its column permutation is the identity                        *)
AutoResolvedRoundedReached ==
    /\ op = "echelon_form"
    /\ A.row * A.col = 209
    /\ AllNumeric(A)
    /\ NonZeroCount(A) = 104
    /\ res.algo = "gauss"
    /\ res.colid = IdentityColumns(A)


(***************************************************************************)
(* Specification SpecDetAuto: determinant(algo) on square matrices of 1 to *)
(* 4 rows whose number of nonzero entries lies around a fifth of the cell  *)
(* count; none, one or all of the nonzero entries are non-numeric.         *)
(***************************************************************************)
DetAutoRows == 1 .. 4

DetAutoDensities(ncells) ==
    {d \in 0 .. ncells :
        d \in {0, 1, ncells \div 5, (ncells \div 5) + 1, ncells - 1, ncells}}

InitDetAuto ==
    /\ \E n \in DetAutoRows : \E d \in DetAutoDensities(n * n) :
          \E kind \in AutoKinds : \E front \in BOOLEAN :
             A = AutoMatrix(n, n, d, kind, front)
    /\ B = NoMatrix
    /\ op = "none"
    /\ arg = "none"
    /\ res = NoResult

DetAuto(algo) ==
    /\ op = "none"
    /\ res' = [tag |-> "det",
               algo |-> DeterminantAlgo(A, algo),
               out |-> determinant(A, algo)]
    /\ op' = "determinant"
    /\ arg' = algo
    /\ UNCHANGED <<A, B>>

NextDetAuto == \E algo \in DeterminantAlgos \cup {"unknown"} : DetAuto(algo)

SpecDetAuto == InitDetAuto /\ [][NextDetAuto]_vars

(* C26: determinant with the automatic algorithm on an n x n matrix,       *)
(* n >= 2, runs Gauss whenever all entries are numeric; otherwise Bareiss  *)
(* if n > 3 and 5 * (number of nonzero entries) <= n * n, and Laplace in   *)
(* every remaining case; a 1 x 1 matrix returns its entry, for every       *)
(* algorithm tag.                                                          *)
DetAutoResolved ==
    op = "determinant" =>
        /\ (arg = "automatic" /\ A.row >= 2) =>
              LET expected ==
                      IF AllNumeric(A) THEN "gauss"
                      ELSE IF A.row > 3 /\ 5 * NonZeroCount(A) <= A.row * A.row
                           THEN "bareiss"
                      ELSE "laplace"
              IN  /\ res.algo = expected
                  /\ res.out = determinant(A, expected)
        /\ A.row = 1 =>
              \A o \in res.out : o.tag = "ex" /\ normal(o.v) = normal(A.m[0])

(* a 4 x 4 matrix with three nonzero entries, one of them non-numeric, was *)
(* resolved to Bareiss                                                     *)
DetAutoResolvedReached ==
    /\ op = "determinant"
    /\ arg = "automatic"
    /\ A.row = 4
    /\ NonZeroCount(A) = 3
    /\ ~AllNumeric(A)
    /\ res.algo = "bareiss"


(***************************************************************************)
(* Specification SpecMarkowitz: markowitz_elimination(n) step by step.     *)
(* res holds the matrix, the counters and colid at the start of step k,    *)
(* and the pivots chosen so far.  Matrices of more than four cells have    *)
(* the entries 0, 1 and an un-normalized zero.                             *)
(***************************************************************************)
MarkowitzEntries(r, c) ==
    IF r * c <= 4 THEN Numerics \cup Unexpanded ELSE {_ex0, _ex1, <<0, 1, 1>>}

InitMarkowitz ==
    /\ \E r \in 1 .. MaxCells : \E c \in 1 .. MaxCells :
          /\ r * c <= MaxCells
          /\ A \in MatricesOf(r, c, MarkowitzEntries(r, c))
    /\ B = NoMatrix
    /\ op = "none"
    /\ arg = "none"
    /\ res = NoResult

(* the loop condition "(k < col) && (k < row - 1)" *)
MarkowitzRunning ==
    /\ op = "markowitz"
    /\ ~res.done
    /\ res.k < A.col
    /\ LtUnsignedPred(res.k, A.row)

MarkowitzStart(n) ==
    /\ op = "none"
    /\ n <= A.col
    /\ n + 1 >= A.col
    /\ res' = [tag |-> "markowitz", S |-> MarkowitzInit(A), k |-> 0,
               pivots |-> <<>>, done |-> FALSE]
    /\ op' = "markowitz"
    /\ arg' = n
    /\ UNCHANGED <<A, B>>

MarkowitzEliminate ==
    /\ MarkowitzRunning
    /\ MarkowitzCandidates(res.S, A.row, A.col, arg, res.k) # {}
    /\ res' = [res EXCEPT
                 !.S = MarkowitzStep(res.S, A.row, A.col, res.k,
                           MarkowitzPivot(res.S, A.row, A.col, arg, res.k)[1],
                           MarkowitzPivot(res.S, A.row, A.col, arg, res.k)[2]),
                 !.k = res.k + 1,
                 !.pivots = Append(res.pivots,
                                   MarkowitzPivot(res.S, A.row, A.col, arg, res.k))]
    /\ UNCHANGED <<A, B, op, arg>>

MarkowitzReturn ==
    /\ op = "markowitz"
    /\ ~res.done
    /\ ~(MarkowitzRunning /\ MarkowitzCandidates(res.S, A.row, A.col, arg, res.k) # {})
    /\ res' = [res EXCEPT !.done = TRUE]
    /\ UNCHANGED <<A, B, op, arg>>

NextMarkowitz ==
    \/ \E n \in 0 .. MaxCells : MarkowitzStart(n)
    \/ MarkowitzEliminate
    \/ MarkowitzReturn

SpecMarkowitz == InitMarkowitz /\ [][NextMarkowitz]_vars

(* the steps end in what markowitz_elimination returns *)
MarkowitzStepwise ==
    (op = "markowitz" /\ res.done) =>
        /\ res.S.colid = markowitz_elimination(A, arg).colid
        /\ res.S.m = markowitz_elimination(A, arg).M.m

(* the entries that are not zero in the rows >= k and the columns k..n-1 *)
NonZeroCandidates(S, row, col, n, k) ==
    {rc \in (k .. row - 1) \X (k .. n - 1) : ~is_zero(S.m[rc[1] * col + rc[2]])}

NonZeroInRow(S, col, r) ==
    Cardinality({c \in 0 .. col - 1 : ~is_zero(S.m[r * col + c])})

NonZeroInColumn(S, row, col, c, k) ==
    Cardinality({r \in k .. row - 1 : ~is_zero(S.m[r * col + c])})

(* C28: at the start of every step k of markowitz_elimination, rowcnt[r]   *)
(* is the number of nonzero entries of row r for each row r >= k, and      *)
(* colcnt[c] is the number of nonzero entries of column c in the rows >= k *)
(* for each column c >= k; rowcnt[r] > 0 and colcnt[c] > 0 for every       *)
(* nonzero pivot candidate (r, c), and its fill-in measure is smaller than *)
(* the sentinel rows * cols.                                               *)
MarkowitzCounters ==
    MarkowitzRunning =>
        /\ \A r \in res.k .. A.row - 1 :
              res.S.rowcnt[r] = NonZeroInRow(res.S, A.col, r)
        /\ \A c \in res.k .. A.col - 1 :
              res.S.colcnt[c] = NonZeroInColumn(res.S, A.row, A.col, c, res.k)
        /\ \A rc \in NonZeroCandidates(res.S, A.row, A.col, arg, res.k) :
              /\ res.S.rowcnt[rc[1]] > 0
              /\ res.S.colcnt[rc[2]] > 0
              /\ MarkowitzMeasure(res.S, rc) < A.row * A.col

(* C27: markowitz_elimination(n) never chooses a pivot in a column >= n;   *)
(* each step picks, among the nonzero entries in the rows >= k and the     *)
(* columns k..n-1, one of minimal (rowcnt-1)*(colcnt-1), and the           *)
(* elimination stops when there is none; colid is a permutation of         *)
(* 0..cols-1 that records exactly the column swaps performed and is the    *)
(* identity on every index >= n.                                           *)
MarkowitzChoice ==
    [][(op = "markowitz" /\ op' = "markowitz") =>
          /\ IF res'.done
             THEN MarkowitzRunning =>
                     NonZeroCandidates(res.S, A.row, A.col, arg, res.k) = {}
             ELSE LET rc == res'.pivots[Len(res'.pivots)]
                  IN  /\ rc[2] < arg
                      /\ rc \in NonZeroCandidates(res.S, A.row, A.col, arg, res.k)
                      /\ \A o \in NonZeroCandidates(res.S, A.row, A.col, arg, res.k) :
                            MarkowitzMeasure(res.S, rc) <= MarkowitzMeasure(res.S, o)
                      /\ res'.S.colid = SwapAt(res.S.colid, rc[2], res.k)
          /\ {res'.S.colid[c] : c \in 0 .. A.col - 1} = 0 .. A.col - 1
          /\ \A c \in arg .. A.col - 1 : res'.S.colid[c] = c]_vars


(***************************************************************************)
(* Specification SpecMinor: determinant_minor column by column.  res holds *)
(* the next column c, the cache M of the minors of the columns to its      *)
(* right, the last column processed with the keys visited in it, and the   *)
(* value of det.                                                           *)
(***************************************************************************)
InitMinor ==
    /\ \E n \in 1 .. MaxCells : n * n <= MaxCells /\ A \in Matrices(n, n)
    /\ B = NoMatrix
    /\ op = "none"
    /\ arg = "none"
    /\ res = NoResult

(* the keys in the order in which the do ... while (fc) loop takes them *)
RECURSIVE KeyWalk(_, _, _)
KeyWalk(Nkey, n, c) ==
    IF NextKey(Nkey, n, c).fc # 0
    THEN <<Nkey>> \o KeyWalk(NextKey(Nkey, n, c).key, n, c)
    ELSE <<Nkey>>

MinorStart ==
    /\ op = "none"
    /\ res' = [tag |-> "minor", c |-> A.col - 1, M |-> {<<<<>>, _ex1>>},
               det |-> _ex0, keys |-> <<>>, last |-> A.col, done |-> FALSE]
    /\ op' = "determinant_minor"
    /\ UNCHANGED <<A, B, arg>>

MinorNext(column) ==
    /\ column.N # EmptyMap
    /\ res' = [res EXCEPT !.c = res.c - 1, !.M = column.N, !.det = column.det,
                          !.last = res.c,
                          !.keys = KeyWalk(FirstKey(A.col - res.c), A.col, res.c)]

MinorVanished(column) ==
    /\ column.N = EmptyMap
    /\ res' = [res EXCEPT !.M = column.M, !.det = _ex0, !.done = TRUE,
                          !.last = res.c,
                          !.keys = KeyWalk(FirstKey(A.col - res.c), A.col, res.c)]

MinorColumnDone ==
    /\ op = "determinant_minor"
    /\ ~res.done
    /\ res.c >= 0
    /\ MinorNext(MinorColumn(A.m, A.col, res.c, FirstKey(A.col - res.c),
                             res.M, EmptyMap))
    /\ UNCHANGED <<A, B, op, arg>>

MinorReturnZero ==
    /\ op = "determinant_minor"
    /\ ~res.done
    /\ res.c >= 0
    /\ MinorVanished(MinorColumn(A.m, A.col, res.c, FirstKey(A.col - res.c),
                                 res.M, EmptyMap))
    /\ UNCHANGED <<A, B, op, arg>>

MinorReturn ==
    /\ op = "determinant_minor"
    /\ ~res.done
    /\ res.c < 0
    /\ res' = [res EXCEPT !.done = TRUE]
    /\ UNCHANGED <<A, B, op, arg>>

NextMinor == MinorStart \/ MinorColumnDone \/ MinorReturnZero \/ MinorReturn

SpecMinor == InitMinor /\ [][NextMinor]_vars

(* the columns end in what determinant_minor returns *)
MinorStepwise ==
    (op = "determinant_minor" /\ res.done) => res.det = determinant_minor(A)

(* the columns c .. n-1 as a key *)
RECURSIVE ColumnsFrom(_, _)
ColumnsFrom(c, n) == IF c >= n THEN <<>> ELSE <<c>> \o ColumnsFrom(c + 1, n)

(* the nonzero minors of the columns c .. n-1, keyed by their rows *)
NonZeroMinors(M, c) ==
    {<<key, MinorDet(M, key, ColumnsFrom(c, M.col))>> :
        key \in {k \in KeysOf(M.col - c, 0, M.col - 1) :
                   ~is_zero(MinorDet(M, k, ColumnsFrom(c, M.col)))}}

(* the largest matrix for which the key generator alone is run *)
MaxKeyRows == 5

(* the key generator of column c of an n x n matrix takes every strictly   *)
(* increasing sequence of n-c rows once                                    *)
KeysOnce(n, c) ==
    /\ {KeyWalk(FirstKey(n - c), n, c)[i] :
           i \in 1 .. Len(KeyWalk(FirstKey(n - c), n, c))} = KeysOf(n - c, 0, n - 1)
    /\ Len(KeyWalk(FirstKey(n - c), n, c)) = Cardinality(KeysOf(n - c, 0, n - 1))

(* C29: in determinant_minor the key generator of column c visits every    *)
(* strictly increasing sequence of n-c row indices exactly once and then   *)
(* stops; after column c the cache holds exactly the nonzero minors of the *)
(* columns c..n-1 keyed by their rows; if every minor of a column is zero  *)
(* the result is zero and no further column is processed.                  *)
MinorCache ==
    (op = "determinant_minor" /\ res.keys # <<>>) =>
        /\ res.keys = KeyWalk(FirstKey(A.col - res.last), A.col, res.last)
        /\ KeysOnce(A.col, res.last)
        /\ A.col = 1 => \A n \in 1 .. MaxKeyRows : \A c \in 0 .. n - 1 : KeysOnce(n, c)
        /\ IF NonZeroMinors(A, res.last) = {}
           THEN res.done /\ res.det = _ex0 /\ res.c = res.last
           ELSE /\ res.M = NonZeroMinors(A, res.last)
                /\ res.c = res.last - 1

(* after the middle column of a 3 x 3 matrix the cache holds two of the    *)
(* three 2 x 2 minors                                                      *)
MinorCacheReached ==
    /\ op = "determinant_minor"
    /\ A.col = 3
    /\ res.c = 0
    /\ Len(res.keys) = 3
    /\ Cardinality(res.M) = 2


(***************************************************************************)
(* Specification SpecBareiss: fraction_free_elimination step by step on    *)
(* matrices of integers with at least two rows.  res holds tmp_n, tmp_d,   *)
(* r0, c0, sign and the divisors at the head of the loop, and the numbers  *)
(* of row swaps and of skipped columns so far.                             *)
(***************************************************************************)
BareissEntries(r, c) ==
    IF r * c <= 4 THEN PivotNumerics
    ELSE {Num(0), Num(MaxVal + 1), Num(0 - MaxVal - 2)}

(* 3 x 4 matrices without a zero in the columns 1, 2, 3, whose column 0 is *)
(* zero or a copy of column 1: one column has no pivot                     *)
SkipMatrices ==
    {matrix_rep(3, 4, [i \in Cells(3, 4) |->
                         IF (i % 4) > 0 THEN f[(i \div 4) * 3 + (i % 4) - 1]
                         ELSE IF dup THEN f[(i \div 4) * 3] ELSE _ex0]) :
        f \in [0 .. 8 -> {Num(MaxVal + 1), Num(0 - MaxVal - 2)}], dup \in BOOLEAN}

InitBareiss ==
    /\ \/ \E r \in 2 .. MaxCells : \E c \in 1 .. MaxCells :
             /\ r * c <= MaxCells
             /\ A \in MatricesOf(r, c, BareissEntries(r, c))
       \/ A \in SkipMatrices
    /\ B = NoMatrix
    /\ op = "none"
    /\ arg = "none"
    /\ res = NoResult

BareissRunning ==
    /\ op = "bareiss"
    /\ ~res.done
    /\ res.c0 < A.col
    /\ LtUnsignedPred(res.r0, A.row)

BareissStart(det) ==
    /\ op = "none"
    /\ det => A.row = A.col
    /\ res' = [tag |-> "bareiss",
               tn |-> [i \in DOMAIN A.m |-> numer(A.m[i])],
               td |-> [i \in DOMAIN A.m |-> denom(A.m[i])],
               r0 |-> 0, c0 |-> 0, sign |-> 1,
               divisor_n |-> _ex1, divisor_d |-> _ex1,
               swaps |-> 0, skips |-> 0, done |-> FALSE]
    /\ op' = "bareiss"
    /\ arg' = det
    /\ UNCHANGED <<A, B>>

(* no pivot in column c0: the column is skipped, or 0 is returned *)
BareissSkip ==
    /\ BareissRunning
    /\ BareissSearch(res.tn, A.row, A.col, res.r0, res.c0) = A.row
    /\ res' = IF arg THEN [res EXCEPT !.sign = 0, !.done = TRUE]
              ELSE [res EXCEPT !.sign = 0, !.c0 = res.c0 + 1,
                               !.skips = res.skips + 1]
    /\ UNCHANGED <<A, B, op, arg>>

BareissSwapped(t, indx) ==
    IF indx > res.r0 THEN SwapRows(t, A.col, indx, res.r0, res.c0) ELSE t

BareissStep(indx, tn1, td1) ==
    res' = [res EXCEPT
              !.tn = IF arg
                     THEN BareissDeleteRow(
                              BareissRowsN(tn1, td1, A.col, res.r0, res.c0,
                                           res.divisor_n),
                              A.col, res.r0, _ex0)
                     ELSE BareissRowsN(tn1, td1, A.col, res.r0, res.c0, res.divisor_n),
              !.td = IF arg
                     THEN BareissDeleteRow(
                              BareissRowsD(tn1, td1, A.col, res.r0, res.c0,
                                           res.divisor_d),
                              A.col, res.r0, _ex1)
                     ELSE BareissRowsD(tn1, td1, A.col, res.r0, res.c0, res.divisor_d),
              !.divisor_n = expand(tn1[res.r0 * A.col + res.c0]),
              !.divisor_d = expand(td1[res.r0 * A.col + res.c0]),
              !.sign = IF indx > res.r0 THEN 0 - res.sign ELSE res.sign,
              !.swaps = IF indx > res.r0 THEN res.swaps + 1 ELSE res.swaps,
              !.r0 = res.r0 + 1,
              !.c0 = res.c0 + 1]

BareissEliminate ==
    /\ BareissRunning
    /\ BareissSearch(res.tn, A.row, A.col, res.r0, res.c0) # A.row
    /\ BareissStep(BareissSearch(res.tn, A.row, A.col, res.r0, res.c0),
                   BareissSwapped(res.tn,
                       BareissSearch(res.tn, A.row, A.col, res.r0, res.c0)),
                   BareissSwapped(res.td,
                       BareissSearch(res.tn, A.row, A.col, res.r0, res.c0)))
    /\ UNCHANGED <<A, B, op, arg>>

BareissFinish ==
    /\ op = "bareiss"
    /\ ~res.done
    /\ ~(res.c0 < A.col /\ LtUnsignedPred(res.r0, A.row))
    /\ res' = [res EXCEPT !.tn = ClearRemainingRows(res.tn, A.col, res.r0),
                          !.done = TRUE]
    /\ UNCHANGED <<A, B, op, arg>>

NextBareiss ==
    \/ \E det \in BOOLEAN : BareissStart(det)
    \/ BareissSkip
    \/ BareissEliminate
    \/ BareissFinish

SpecBareiss == InitBareiss /\ [][NextBareiss]_vars

(* the steps end in what fraction_free_elimination returns *)
BareissStepwise ==
    (op = "bareiss" /\ res.done) =>
        /\ res.sign = fraction_free_elimination(A, arg).sign
        /\ res.sign # 0 \/ ~arg =>
              [i \in DOMAIN A.m |-> EDiv(res.tn[i], res.td[i])]
                 = fraction_free_elimination(A, arg).M.m

IntegerEx(e) == e[2] = 1 /\ e[3] = 0

(* C30: in fraction_free_elimination on integer entries every division of  *)
(* a fresh numerator and denominator by the numerator and denominator of   *)
(* the previous pivot is exact, also after row swaps and skipped columns;  *)
(* tmp_n and tmp_d keep the shape of the matrix and are updated together.  *)
BareissExact ==
    op = "bareiss" =>
        /\ DOMAIN res.tn = DOMAIN A.m
        /\ DOMAIN res.td = DOMAIN A.m
        /\ \A i \in DOMAIN A.m : IntegerEx(res.tn[i]) /\ res.td[i] = _ex1
        /\ IntegerEx(res.divisor_n) /\ ~is_zero(res.divisor_n)
        /\ res.divisor_d = _ex1

(* the second step of a 3 x 3 matrix divided by a pivot that is not a unit, *)
(* after a row swap, and left a nonzero last entry                          *)
BareissExactReached ==
    /\ op = "bareiss"
    /\ A.row = 3 /\ A.col = 3
    /\ res.r0 = 2
    /\ res.swaps > 0
    /\ Abs(res.divisor_n[1]) > 1
    /\ ~is_zero(res.tn[8])

(* a division by a pivot that is not a unit after a skipped column *)
BareissExactSkipReached ==
    /\ op = "bareiss"
    /\ res.r0 = 2
    /\ res.skips > 0
    /\ Abs(res.divisor_n[1]) > 1
    /\ \E i \in DOMAIN res.tn : i \div A.col = 2 /\ ~is_zero(res.tn[i])

====
